---- MODULE Spec2Model ----
(***************************************************************************)
(* Topic graph engine of projectmark: the versioned topic store, the CRUD  *)
(* handlers of TopicController, ShortestPathService (BFS over parent and  *)
(* child links) and TopicTreeService (tree, path to root, descendants).   *)
(*                                                                         *)
(* Identifiers (UUID strings in the code) are positive integers; NoId (0)  *)
(* stands for an absent / undefined / empty-string identifier, which is   *)
(* falsy in the TypeScript conditions exactly as 0 is here.               *)
(***************************************************************************)
EXTENDS Integers, Sequences, FiniteSets, TLC

\* ----------------------------------------------------------------- bounds
\* Most topic records a seeded store holds.
MaxTopics == 2

\* Most topics of a seeded hierarchy.
MaxNodes == 5

\* Most records the controller's store holds.
MaxStored == 3

\* Most identifiers handed out, by generateId or as new values of a client.
MaxIds == 5

\* Largest version number a request body carries.
MaxBodyVersion == 2

\* Most requests that choose id, baseTopicId, version or isLatest themselves.
MaxSupplied == 1

\* Most records of a store that is read through a failing database.
MaxFaultyStored == 3

\* Most database queries that throw during one call.
MaxFailing == 1

\* Most enqueue calls of the client that drives a queue.
MaxEnqueues == 5

\* The items it enqueues are 1..MaxItem.
MaxItem == 2

NoId == 0

VARIABLES
    store,      \* the 'topics' collection: records in insertion order
    pc,         \* position of the running service call: "idle", "bfs",
                \* "walk", "build", "done"
    call,       \* the arguments of the running / last call
    bfs,        \* the local state of ShortestPathService.bfs
    result,     \* what the last findShortestPath returned
    walk,       \* the local state of TopicTreeService.getTopicPath
    build,      \* the tree under construction and the buildChildren frames
    treeResult, \* what the last TopicTreeService call returned
    nextId,     \* the next value generateId (uuidv4) hands out
    response,   \* the HTTP response of the last controller request
    supplied,   \* requests so far that chose an id, baseTopicId, version or
                \* isLatest in their bodies
    failing,    \* the database queries that throw during the running call
    errors,     \* what console.error has logged during the running / last
                \* call: which catch block, about which id
    queue,      \* a Queue<T> that a client drives call by call
    ghost,      \* what that client has seen: the items it enqueued and has
                \* not got back, its call counts, the last return value
    updating    \* the updateTopic request whose store calls are in flight

vars == <<store, pc, call, bfs, result, walk, build, treeResult, nextId,
          response, supplied, failing, errors, queue, ghost,
          updating>>

treeVars == <<walk, build, treeResult>>

pathVars == <<bfs, result>>

crudVars == <<nextId, response, supplied>>

faultVars == <<failing, errors>>

queueVars == <<queue, ghost>>

\* --------------------------------------------------------------- database
\* No client has called the queue yet.
IdleGhost ==
    [fifo |-> <<>>, enqueues |-> 0, dequeues |-> 0, calls |-> 0,
     returned |-> 0, expected |-> 0]

\* No updateTopic request is between its two writes.
NoUpdate ==
    [stage |-> "none", id |-> 0,
     newVersion |-> [id |-> 0, baseTopicId |-> 0, version |-> 0,
                     isLatest |-> FALSE, parentTopicId |-> 0],
     before |-> <<>>]

\* findById's "no such record" (null).
NullTopic ==
    [id |-> NoId, baseTopicId |-> NoId, version |-> 0, isLatest |-> FALSE,
     parentTopicId |-> NoId]

IsNull(t) == t.id = NoId

Ids(s) == {s[i].id : i \in 1..Len(s)}

\* InMemoryDatabase.findById: the record stored under the id, or null.
FindById(s, id) ==
    IF \E i \in 1..Len(s) : s[i].id = id
    THEN s[CHOOSE i \in 1..Len(s) : s[i].id = id]
    ELSE NullTopic

\* InMemoryDatabase.find: the records matching every key of the criteria,
\* in insertion order.
Find(s, criteria) ==
    SelectSeq(s, LAMBDA t : \A k \in DOMAIN criteria : t[k] = criteria[k])

\* records[0] || null
FirstOrNull(q) == IF Len(q) > 0 THEN q[1] ELSE NullTopic

\* ------------------------------------------------------------------ queue
\* Queue<T>: an array with a head cursor.
EmptyQueue == [items |-> <<>>, head |-> 0]

QIsEmpty(q) == q.head >= Len(q.items)

QSize(q) == Len(q.items) - q.head

Enqueue(q, item) == [q EXCEPT !.items = Append(@, item)]

\* dequeue(), were the compaction to slice one item too far.
DequeueDroppingOne(q) ==
    IF QIsEmpty(q) THEN q
    ELSE LET h == q.head + 1 IN
         IF 2 * h > Len(q.items)
         THEN [items |-> SubSeq(q.items, h + 2, Len(q.items)), head |-> 0]
         ELSE [q EXCEPT !.head = h]

\* The item dequeue() returns (NoId for undefined on an empty queue).
QFront(q) == IF QIsEmpty(q) THEN NoId ELSE q.items[q.head + 1]

\* The queue after dequeue(): head advances, and the consumed prefix is
\* dropped once head > items.length / 2.
Dequeue(q) ==
    IF QIsEmpty(q) THEN q
    ELSE LET h == q.head + 1 IN
         IF 2 * h > Len(q.items)
         THEN [items |-> SubSeq(q.items, h + 1, Len(q.items)), head |-> 0]
         ELSE [q EXCEPT !.head = h]

\* ---------------------------------------------------- ShortestPathService
\* getTopicById, were it to return the record of the id whatever its
\* version.
GetTopicByIdOfAnyVersion(s, topicId, onlyLatest) == FindById(s, topicId)

\* getTopicById
GetTopicById(s, topicId, onlyLatest) ==
    IF onlyLatest
    THEN LET topic == FindById(s, topicId) IN
         IF ~IsNull(topic) /\ topic.isLatest THEN topic
         ELSE IF ~IsNull(topic)
              THEN FirstOrNull(Find(s, [baseTopicId |-> topic.baseTopicId,
                                        isLatest |-> TRUE]))
              ELSE NullTopic
    ELSE FindById(s, topicId)

\* The parent part of getTopicNeighbors: zero or one topic.
ParentNeighbor(s, topic, onlyLatest) ==
    IF topic.parentTopicId = NoId THEN <<>>
    ELSE LET byId == GetTopicById(s, topic.parentTopicId, onlyLatest)
             parent ==
                 IF IsNull(byId) /\ onlyLatest
                 THEN FirstOrNull(Find(s, [baseTopicId |-> topic.parentTopicId,
                                           isLatest |-> TRUE]))
                 ELSE byId
         IN  IF IsNull(parent) THEN <<>> ELSE <<parent>>

\* The children query, were its parentTopicId criterion left out.
ChildrenOfAnyParent(s, parentId, onlyLatest) ==
    IF onlyLatest THEN Find(s, [isLatest |-> TRUE])
    ELSE Find(s, [isLatest |-> TRUE]) \o Find(s, [isLatest |-> FALSE])

\* find('topics', {parentTopicId} or {parentTopicId, isLatest: true})
ChildrenOf(s, parentId, onlyLatest) ==
    IF onlyLatest
    THEN Find(s, [parentTopicId |-> parentId, isLatest |-> TRUE])
    ELSE Find(s, [parentTopicId |-> parentId])

\* topic.baseTopicId || topic.id
BaseOrId(topic) ==
    IF topic.baseTopicId # NoId THEN topic.baseTopicId ELSE topic.id

\* getTopicNeighbors: parent, children by base id, children by version id.
GetTopicNeighbors(s, topic, onlyLatest) ==
    LET baseId == BaseOrId(topic) IN
    ParentNeighbor(s, topic, onlyLatest)
        \o ChildrenOf(s, baseId, onlyLatest)
        \o (IF topic.id # baseId THEN ChildrenOf(s, topic.id, onlyLatest)
            ELSE <<>>)

\* parent.get(id) || ''
MapGet(m, id) == IF id \in DOMAIN m THEN m[id] ELSE NoId

MapSet(m, k, v) == [x \in DOMAIN m \cup {k} |-> IF x = k THEN v ELSE m[x]]

EmptyMap == [x \in {} |-> NoId]

\* getDistance: the number of parent-map links from end back to start.
RECURSIVE GetDistance(_, _, _)
GetDistance(parent, start, current) ==
    IF current # NoId /\ current # start
    THEN 1 + GetDistance(parent, start, MapGet(parent, current))
    ELSE 0

\* buildPath's walk, were it to stop at the start id without collecting it.
RECURSIVE PathIdsWithoutStart(_, _, _, _)
PathIdsWithoutStart(parent, start, current, acc) ==
    IF current = NoId THEN acc
    ELSE LET next == MapGet(parent, current) IN
         IF next = start THEN <<current>> \o acc
         ELSE PathIdsWithoutStart(parent, start, next, <<current>> \o acc)

\* The ids buildPath collects, walking the parent map back from 'current'.
RECURSIVE PathIds(_, _, _, _)
PathIds(parent, start, current, acc) ==
    IF current = NoId THEN acc
    ELSE LET next == MapGet(parent, current) IN
         IF next = start THEN <<start, current>> \o acc
         ELSE PathIds(parent, start, next, <<current>> \o acc)

\* The second loop of buildPath: resolve each id, keep what resolves.
RECURSIVE ResolveAll(_, _, _)
ResolveAll(s, ids, onlyLatest) ==
    IF ids = <<>> THEN <<>>
    ELSE LET topic == GetTopicById(s, Head(ids), onlyLatest) IN
         (IF IsNull(topic) THEN <<>> ELSE <<topic>>)
             \o ResolveAll(s, Tail(ids), onlyLatest)

BuildPath(s, parent, start, end, onlyLatest) ==
    ResolveAll(s, PathIds(parent, start, end, <<>>), onlyLatest)

Max(a, b) == IF a >= b THEN a ELSE b

\* createEmptyResult
CreateEmptyResult(nodesExplored, maxDepth) ==
    [path |-> <<>>, distance |-> -1, pathExists |-> FALSE,
     nodesExplored |-> nodesExplored, maxDepth |-> maxDepth]

\* bfs, before its loop.
BfsStart(startTopic) ==
    [queue |-> Enqueue(EmptyQueue, startTopic.id),
     visited |-> {startTopic.id},
     parent |-> EmptyMap,
     nodesExplored |-> 0,
     maxDepth |-> 0,
     enqueued |-> <<startTopic.id>>]    \* history of enqueue calls

\* The inner loop of bfs, were every neighbor enqueued, visited or not.
RECURSIVE AddNeighborsUnchecked(_, _, _)
AddNeighborsUnchecked(b, neighbors, currentId) ==
    IF neighbors = <<>> THEN b
    ELSE LET n == Head(neighbors) IN
         AddNeighborsUnchecked(
             [b EXCEPT !.visited = @ \cup {n.id},
                       !.parent = MapSet(@, n.id, currentId),
                       !.queue = Enqueue(@, n.id),
                       !.enqueued = Append(@, n.id)],
             Tail(neighbors), currentId)

\* The for loop over the neighbors of currentId.
RECURSIVE AddNeighbors(_, _, _)
AddNeighbors(b, neighbors, currentId) ==
    IF neighbors = <<>> THEN b
    ELSE LET n == Head(neighbors) IN
         IF n.id \notin b.visited
         THEN AddNeighbors(
                  [b EXCEPT !.visited = @ \cup {n.id},
                            !.parent = MapSet(@, n.id, currentId),
                            !.queue = Enqueue(@, n.id),
                            !.enqueued = Append(@, n.id)],
                  Tail(neighbors), currentId)
         ELSE AddNeighbors(b, Tail(neighbors), currentId)

\* One iteration of the while loop that does not return: dequeue, expand.
BfsExpand(s, b, startTopic, onlyLatest) ==
    LET currentId == QFront(b.queue)
        b1 == [b EXCEPT !.queue = Dequeue(@), !.nodesExplored = @ + 1]
        currentTopic == GetTopicById(s, currentId, onlyLatest)
    IN  IF IsNull(currentTopic) THEN b1
        ELSE AddNeighbors(
                 [b1 EXCEPT !.maxDepth =
                     Max(@, GetDistance(b.parent, startTopic.id, currentId))],
                 GetTopicNeighbors(s, currentTopic, onlyLatest), currentId)

\* The result returned when the dequeued id is the end topic's.
BfsFound(s, b, startTopic, endTopic, onlyLatest) ==
    LET distance == GetDistance(b.parent, startTopic.id, endTopic.id) IN
    [path |-> BuildPath(s, b.parent, startTopic.id, endTopic.id, onlyLatest),
     distance |-> distance, pathExists |-> TRUE,
     nodesExplored |-> b.nodesExplored + 1,
     maxDepth |-> Max(b.maxDepth, distance)]

\* bfs run to completion.
RECURSIVE BfsRun(_, _, _, _, _)
BfsRun(s, b, startTopic, endTopic, onlyLatest) ==
    IF QIsEmpty(b.queue)
    THEN CreateEmptyResult(b.nodesExplored, b.maxDepth)
    ELSE IF QFront(b.queue) = endTopic.id
         THEN BfsFound(s, b, startTopic, endTopic, onlyLatest)
         ELSE BfsRun(s, BfsExpand(s, b, startTopic, onlyLatest),
                     startTopic, endTopic, onlyLatest)

\* findShortestPath, were the same-topic answer given before the two ends
\* are looked at.
FindShortestPathSameFirst(s, startTopicId, endTopicId, onlyLatest) ==
    LET startTopic == GetTopicById(s, startTopicId, onlyLatest)
        endTopic == GetTopicById(s, endTopicId, onlyLatest)
    IN  IF startTopicId = endTopicId
        THEN [path |-> <<startTopic>>, distance |-> 0,
              pathExists |-> TRUE, nodesExplored |-> 1, maxDepth |-> 0]
        ELSE IF IsNull(startTopic) \/ IsNull(endTopic)
             THEN CreateEmptyResult(0, 0)
             ELSE BfsRun(s, BfsStart(startTopic), startTopic, endTopic,
                         onlyLatest)

\* findShortestPath as a function of the store and its arguments.
FindShortestPath(s, startTopicId, endTopicId, onlyLatest) ==
    LET startTopic == GetTopicById(s, startTopicId, onlyLatest)
        endTopic == GetTopicById(s, endTopicId, onlyLatest)
    IN  IF IsNull(startTopic) \/ IsNull(endTopic)
        THEN CreateEmptyResult(0, 0)
        ELSE IF startTopicId = endTopicId
             THEN [path |-> <<startTopic>>, distance |-> 0,
                   pathExists |-> TRUE, nodesExplored |-> 1, maxDepth |-> 0]
             ELSE BfsRun(s, BfsStart(startTopic), startTopic, endTopic,
                         onlyLatest)

\* ------------------------------------------------------------ seeded stores
\* The stores the services are run on; the k-th record of a store has id k.
\* A baseTopicId is either the id of a record (TopicModel.create copies a
\* supplied id into baseTopicId) or a value that is no record's id
\* (generateId): PureBase(j).
IdSpace == MaxTopics + MaxNodes + 1

PureBase(j) == IdSpace + j

\* (a) Arbitrary stores of up to MaxTopics records: any baseTopicId among
\* the ids and pure values in use, either isLatest, and a parentTopicId that
\* is absent, a version id or a pure value.
BaseChoices(k) == (1..k) \cup {PureBase(j) : j \in 1..k}

ParentChoices ==
    {NoId} \cup (1..MaxTopics) \cup {PureBase(j) : j \in 1..MaxTopics}

SeedTopic(k) ==
    {[id |-> k, baseTopicId |-> b, version |-> 1, isLatest |-> l,
      parentTopicId |-> p] :
        b \in BaseChoices(k), l \in BOOLEAN, p \in ParentChoices}

\* Versions of one base topic are numbered in insertion order.
Renumber(s) ==
    [k \in 1..Len(s) |->
        [s[k] EXCEPT !.version =
            1 + Cardinality({j \in 1..(k - 1) :
                                s[j].baseTopicId = s[k].baseTopicId})]]

RECURSIVE SeedSeqs(_)
SeedSeqs(n) ==
    IF n = 0 THEN {<<>>}
    ELSE LET shorter == SeedSeqs(n - 1) IN
         shorter \cup {Append(s, t) : s \in {x \in shorter : Len(x) = n - 1},
                                      t \in SeedTopic(n)}

ArbitraryStores == {Renumber(s) : s \in SeedSeqs(MaxTopics)}

\* (b) Hierarchies of up to MaxNodes topics as the data model describes
\* them: topic k is a child of an earlier topic or a root, every
\* parentTopicId is a baseTopicId, the base ids are all version ids
\* (own = TRUE) or all pure, and at most one topic (versioned) has been
\* updated once: its first version is stale and its second version, the
\* last record, is the latest.
HierarchyStore(m, parentOf, own, versioned) ==
    LET base(k) == IF k = 0 THEN NoId ELSE IF own THEN k ELSE PureBase(k)
        first == [k \in 1..m |->
                    [id |-> k, baseTopicId |-> base(k), version |-> 1,
                     isLatest |-> (k # versioned),
                     parentTopicId |-> base(parentOf[k])]]
    IN  IF versioned = 0 THEN first
        ELSE Append(first,
                 [id |-> m + 1, baseTopicId |-> base(versioned),
                  version |-> 2, isLatest |-> TRUE,
                  parentTopicId |-> base(parentOf[versioned])])

HierarchyStores ==
    UNION {{HierarchyStore(m, parentOf, own, versioned) :
               parentOf \in {f \in [1..m -> 0..(m - 1)] :
                                \A k \in 1..m : f[k] < k},
               own \in BOOLEAN, versioned \in 0..m} : m \in 1..MaxNodes}

SeedStores == ArbitraryStores \cup HierarchyStores

\* ------------------------------------------------------------------ actions
IdleCall == [op |-> "none", startTopicId |-> NoId, endTopicId |-> NoId,
             onlyLatest |-> TRUE]

NoResult == CreateEmptyResult(0, 0)

\* No bfs has been started.
IdleBfs ==
    [queue |-> EmptyQueue, visited |-> {}, parent |-> EmptyMap,
     nodesExplored |-> 0, maxDepth |-> 0, enqueued |-> <<>>]

\* No getTopicPath walk has been started.
IdleWalk == [path |-> <<>>, current |-> NullTopic, visitedIds |-> {}]

\* No tree is being built.
IdleBuild == [nodes |-> <<>>, stack |-> <<>>]

NoTreeResult == [kind |-> "none", path |-> <<>>, nodes |-> <<>>]

NoResponse == [op |-> "none", id |-> NoId, status |-> 0, topic |-> NullTopic]

\* The services at rest over a seeded store.
InitServices ==
    /\ store \in SeedStores
    /\ pc = "idle"
    /\ call = IdleCall
    /\ bfs = IdleBfs
    /\ result = NoResult
    /\ walk = IdleWalk
    /\ build = IdleBuild
    /\ treeResult = NoTreeResult
    /\ nextId = 1
    /\ response = NoResponse
    /\ supplied = 0
    /\ failing = {}
    /\ errors = {}
    /\ queue = EmptyQueue
    /\ ghost = IdleGhost
    /\ updating = NoUpdate

InitPath == InitServices

\* The ids a caller asks about: every stored id and one that is not stored.
QueryIds(s) == 1..(Len(s) + 1)

\* findShortestPath up to the call of bfs: resolve both ends, answer at
\* once when one is missing or the two requested ids are equal.
FindShortestPathCall(startTopicId, endTopicId, onlyLatest) ==
    /\ pc = "idle"
    /\ call' = [op |-> "findShortestPath", startTopicId |-> startTopicId,
                endTopicId |-> endTopicId, onlyLatest |-> onlyLatest]
    /\ LET startTopic == GetTopicById(store, startTopicId, onlyLatest)
           endTopic == GetTopicById(store, endTopicId, onlyLatest)
       IN  IF IsNull(startTopic) \/ IsNull(endTopic) \/ startTopicId = endTopicId
           THEN /\ pc' = "done"
                /\ result' = FindShortestPath(store, startTopicId, endTopicId,
                                              onlyLatest)
                /\ bfs' = bfs
           ELSE /\ pc' = "bfs"
                /\ bfs' = BfsStart(startTopic)
                /\ result' = NoResult
    /\ UNCHANGED <<store, treeVars, crudVars, faultVars,
                 queueVars, updating>>

StartTopic == GetTopicById(store, call.startTopicId, call.onlyLatest)

EndTopic == GetTopicById(store, call.endTopicId, call.onlyLatest)

\* One pass of the while loop of bfs, or its exit.
BfsIterate ==
    /\ pc = "bfs"
    /\ IF QIsEmpty(bfs.queue)
       THEN /\ pc' = "done"
            /\ result' = CreateEmptyResult(bfs.nodesExplored, bfs.maxDepth)
            /\ bfs' = bfs
       ELSE IF QFront(bfs.queue) = EndTopic.id
            THEN /\ pc' = "done"
                 /\ result' = BfsFound(store, bfs, StartTopic, EndTopic,
                                       call.onlyLatest)
                 /\ bfs' = [bfs EXCEPT !.queue = Dequeue(@),
                                       !.nodesExplored = @ + 1]
            ELSE /\ pc' = "bfs"
                 /\ bfs' = BfsExpand(store, bfs, StartTopic, call.onlyLatest)
                 /\ result' = result
    /\ UNCHANGED <<store, call, treeVars, crudVars, faultVars,
                 queueVars, updating>>

NextPath ==
    \/ \E a \in QueryIds(store), b \in QueryIds(store), ol \in BOOLEAN :
           FindShortestPathCall(a, b, ol)
    \/ BfsIterate

SpecPath == InitPath /\ [][NextPath]_vars

\* ------------------------------- ShortestPathService over a failing store
\* A query names one database call: findById(id) or find(criteria).
ByIdQuery(id) == [op |-> "findById", criteria |-> [id |-> id]]

FindQuery(criteria) == [op |-> "find", criteria |-> criteria]

\* The call rejects ('Database error') instead of answering.
Throws(f, query) == query \in f

\* console.error in the catch block of 'where', about 'id'.
Logged(where, id) == [where |-> where, id |-> id]

\* { parentTopicId } or { parentTopicId, isLatest: true }
ChildCriteria(parentId, onlyLatest) ==
    IF onlyLatest THEN [parentTopicId |-> parentId, isLatest |-> TRUE]
    ELSE [parentTopicId |-> parentId]

LatestOfBaseCriteria(baseTopicId) ==
    [baseTopicId |-> baseTopicId, isLatest |-> TRUE]

\* getTopicById with its catch: a query that throws gives null.
GetTopicByIdCaught(s, f, topicId, onlyLatest) ==
    LET caught == [topic |-> NullTopic,
                   errors |-> {Logged("getTopicById", topicId)}]
    IN  IF Throws(f, ByIdQuery(topicId)) THEN caught
        ELSE LET topic == FindById(s, topicId) IN
             IF onlyLatest /\ ~IsNull(topic) /\ ~topic.isLatest
             THEN LET criteria == LatestOfBaseCriteria(topic.baseTopicId) IN
                  IF Throws(f, FindQuery(criteria)) THEN caught
                  ELSE [topic |-> FirstOrNull(Find(s, criteria)),
                        errors |-> {}]
             ELSE [topic |-> topic, errors |-> {}]

\* getTopicNeighbors with its catch: a find that throws ends the
\* collection, and the neighbors pushed before it are returned.
GetTopicNeighborsCaught(s, f, topic, onlyLatest) ==
    LET baseId == BaseOrId(topic)
        hasParent == topic.parentTopicId # NoId
        byId == IF hasParent
                THEN GetTopicByIdCaught(s, f, topic.parentTopicId, onlyLatest)
                ELSE [topic |-> NullTopic, errors |-> {}]
        byBase == hasParent /\ IsNull(byId.topic) /\ onlyLatest
        parentCriteria == LatestOfBaseCriteria(topic.parentTopicId)
        parent == IF byBase THEN FirstOrNull(Find(s, parentCriteria))
                  ELSE byId.topic
        parents == IF IsNull(parent) THEN <<>> ELSE <<parent>>
        childCriteria == ChildCriteria(baseId, onlyLatest)
        directCriteria == ChildCriteria(topic.id, onlyLatest)
        caught == byId.errors \cup {Logged("getTopicNeighbors", topic.id)}
    IN  IF byBase /\ Throws(f, FindQuery(parentCriteria))
        THEN [neighbors |-> <<>>, errors |-> caught]
        ELSE IF Throws(f, FindQuery(childCriteria))
        THEN [neighbors |-> parents, errors |-> caught]
        ELSE IF topic.id # baseId /\ Throws(f, FindQuery(directCriteria))
        THEN [neighbors |-> parents \o Find(s, childCriteria),
              errors |-> caught]
        ELSE [neighbors |->
                  parents \o Find(s, childCriteria)
                      \o (IF topic.id # baseId THEN Find(s, directCriteria)
                          ELSE <<>>),
              errors |-> byId.errors]

\* buildPath: an id whose lookup throws is left out like one that is gone.
BuildPathCaught(s, f, parent, start, end, onlyLatest) ==
    LET ids == PathIds(parent, start, end, <<>>)
        got == [i \in 1..Len(ids) |->
                   GetTopicByIdCaught(s, f, ids[i], onlyLatest)]
        kept == SelectSeq(got, LAMBDA g : ~IsNull(g.topic))
    IN  [path |-> [i \in 1..Len(kept) |-> kept[i].topic],
         errors |-> UNION {got[i].errors : i \in 1..Len(got)}]

\* The stores the failing database is tried on: the hierarchies of up to
\* MaxFaultyStored records.
FaultyStores == {s \in HierarchyStores : Len(s) <= MaxFaultyStored}

\* The values a query can ask about.
QueryValues(s) ==
    QueryIds(s) \cup {s[i].baseTopicId : i \in 1..Len(s)}

\* The queries the services can make about these values.
Queries(s) ==
    {ByIdQuery(v) : v \in QueryValues(s)}
        \cup {FindQuery(LatestOfBaseCriteria(v)) : v \in QueryValues(s)}
        \cup {FindQuery(ChildCriteria(v, ol)) :
                 v \in QueryValues(s), ol \in BOOLEAN}
        \cup {FindQuery([isLatest |-> TRUE]),
              FindQuery([field \in {} |-> NoId])}

\* What may fail during one call: nothing, or up to MaxFailing queries.
RECURSIVE FailureSets(_, _)
FailureSets(queries, n) ==
    IF n = 0 THEN {{}}
    ELSE LET fewer == FailureSets(queries, n - 1) IN
         fewer \cup {f \cup {q} : f \in fewer, q \in queries}

Failures(s) == FailureSets(Queries(s), MaxFailing)

InitFaulty ==
    /\ InitServices
    /\ store \in FaultyStores

\* findShortestPath up to the call of bfs, over a database where the
\* queries of f throw.
FindShortestPathCaught(startTopicId, endTopicId, onlyLatest, f) ==
    /\ pc = "idle"
    /\ call' = [op |-> "findShortestPath", startTopicId |-> startTopicId,
                endTopicId |-> endTopicId, onlyLatest |-> onlyLatest]
    /\ failing' = f
    /\ LET start == GetTopicByIdCaught(store, f, startTopicId, onlyLatest)
           end == GetTopicByIdCaught(store, f, endTopicId, onlyLatest)
       IN  /\ errors' = start.errors \cup end.errors
           /\ IF IsNull(start.topic) \/ IsNull(end.topic)
              THEN /\ pc' = "done"
                   /\ result' = CreateEmptyResult(0, 0)
                   /\ bfs' = bfs
              ELSE IF startTopicId = endTopicId
              THEN /\ pc' = "done"
                   /\ result' = [path |-> <<start.topic>>, distance |-> 0,
                                 pathExists |-> TRUE, nodesExplored |-> 1,
                                 maxDepth |-> 0]
                   /\ bfs' = bfs
              ELSE /\ pc' = "bfs"
                   /\ bfs' = BfsStart(start.topic)
                   /\ result' = NoResult
    /\ UNCHANGED <<store, treeVars, crudVars,
                 queueVars, updating>>

\* One pass of the while loop of bfs, or its exit, over the failing
\* database.
BfsIterateCaught ==
    /\ pc = "bfs"
    /\ IF QIsEmpty(bfs.queue)
       THEN /\ pc' = "done"
            /\ result' = CreateEmptyResult(bfs.nodesExplored, bfs.maxDepth)
            /\ UNCHANGED <<bfs, errors>>
       ELSE IF QFront(bfs.queue) = EndTopic.id
       THEN LET distance == GetDistance(bfs.parent, StartTopic.id,
                                        EndTopic.id)
                built == BuildPathCaught(store, failing, bfs.parent,
                                         StartTopic.id, EndTopic.id,
                                         call.onlyLatest)
            IN  /\ pc' = "done"
                /\ result' = [path |-> built.path, distance |-> distance,
                              pathExists |-> TRUE,
                              nodesExplored |-> bfs.nodesExplored + 1,
                              maxDepth |-> Max(bfs.maxDepth, distance)]
                /\ bfs' = [bfs EXCEPT !.queue = Dequeue(@),
                                      !.nodesExplored = @ + 1]
                /\ errors' = errors \cup built.errors
       ELSE LET currentId == QFront(bfs.queue)
                b1 == [bfs EXCEPT !.queue = Dequeue(@),
                                  !.nodesExplored = @ + 1]
                current == GetTopicByIdCaught(store, failing, currentId,
                                              call.onlyLatest)
                found == GetTopicNeighborsCaught(store, failing,
                                                 current.topic,
                                                 call.onlyLatest)
            IN  /\ pc' = "bfs"
                /\ result' = result
                /\ IF IsNull(current.topic)
                   THEN /\ bfs' = b1
                        /\ errors' = errors \cup current.errors
                   ELSE /\ bfs' = AddNeighbors(
                                [b1 EXCEPT !.maxDepth =
                                    Max(@, GetDistance(bfs.parent,
                                                       StartTopic.id,
                                                       currentId))],
                                found.neighbors, currentId)
                        /\ errors' = errors \cup found.errors
    /\ UNCHANGED <<store, call, failing, treeVars, crudVars,
                 queueVars, updating>>

NextPathFaulty ==
    \/ \E a \in QueryIds(store), b \in QueryIds(store), ol \in BOOLEAN,
          f \in Failures(store) :
           FindShortestPathCaught(a, b, ol, f)
    \/ BfsIterateCaught

SpecPathFaulty == InitFaulty /\ [][NextPathFaulty]_vars

\* ------------------------------------------------------- TopicTreeService
\* getTopicById of TopicTreeService.
TreeGetTopicById(s, topicId, onlyLatest) ==
    IF onlyLatest
    THEN LET topic == FindById(s, topicId) IN
         IF ~IsNull(topic) /\ topic.isLatest THEN topic
         ELSE IF ~IsNull(topic)
              THEN FirstOrNull(Find(s, [baseTopicId |-> topic.baseTopicId,
                                        isLatest |-> TRUE]))
              ELSE NullTopic
    ELSE FindById(s, topicId)

\* hasChildren: some latest topic names the base id as its parent.
HasChildren(s, baseTopicId) ==
    Len(Find(s, [parentTopicId |-> baseTopicId, isLatest |-> TRUE])) > 0

\* TopicComponentFactory.createComponent, as a node of the tree under
\* construction: 'parent' is the index of the node it is added to (0 for the
\* root of a tree).
CreateComponent(topic, hasChildren, parent) ==
    [topic |-> topic, composite |-> hasChildren, parent |-> parent]

\* The query buildChildren starts with: the children of composite.getId().
ChildrenToBuild(s, composite, onlyLatest) ==
    IF onlyLatest
    THEN Find(s, [parentTopicId |-> composite.topic.id, isLatest |-> TRUE])
    ELSE Find(s, [parentTopicId |-> composite.topic.id])

\* A node was created at the end of b.nodes: when it is a composite,
\* buildChildren is entered for it.
EnterBuildChildren(s, b, onlyLatest) ==
    LET idx == Len(b.nodes)
        node == b.nodes[idx]
    IN  IF node.composite
        THEN [b EXCEPT !.stack =
                 Append(@, [node |-> idx,
                            children |-> ChildrenToBuild(s, node, onlyLatest)])]
        ELSE b

\* buildTopicTree up to the recursion: resolve the topic, create its node.
StartTree(s, b, topic, onlyLatest) ==
    EnterBuildChildren(s,
        [b EXCEPT !.nodes =
            Append(@, CreateComponent(topic,
                                      HasChildren(s, BaseOrId(topic)), 0))],
        onlyLatest)

\* One pass of the for loop of the innermost buildChildren: the next child
\* becomes a node of its composite, and is entered when it is a composite.
BuildChild(s, b, onlyLatest) ==
    LET top == Len(b.stack)
        frame == b.stack[top]
        child == Head(frame.children)
        b1 == [b EXCEPT !.stack[top].children = Tail(@),
                        !.nodes = Append(@,
                            CreateComponent(child,
                                HasChildren(s, BaseOrId(child)), frame.node))]
    IN  EnterBuildChildren(s, b1, onlyLatest)

\* The topics on the buildChildren frames, outermost first.
FrameIds(b) == [i \in 1..Len(b.stack) |-> b.nodes[b.stack[i].node].topic.id]

\* collectDescendants, were it to collect the children of the root only.
DirectDescendants(nodes) ==
    LET direct == SelectSeq(nodes, LAMBDA n : n.parent = 1)
    IN  [i \in 1..Len(direct) |->
            [id |-> direct[i].topic.id,
             version |-> direct[i].topic.version,
             isLatest |-> direct[i].topic.isLatest]]

\* collectDescendants: every node but the root, in pre-order, as the
\* partial topic it copies out of the component.
Descendants(nodes) ==
    [i \in 1..(Len(nodes) - 1) |->
        [id |-> nodes[i + 1].topic.id,
         version |-> nodes[i + 1].topic.version,
         isLatest |-> nodes[i + 1].topic.isLatest]]

\* The places in 'nodes' of the children added to node i, in the order
\* they were added.
ChildIndexes(nodes, i) ==
    SelectSeq([j \in 1..Len(nodes) |-> j], LAMBDA j : nodes[j].parent = i)

\* getTotalDescendantCount, were it to stop at the children.
GetTotalDescendantCountOfChildren(nodes, i) == Len(ChildIndexes(nodes, i))

\* TopicComposite.getTotalDescendantCount: the children, and for each
\* child that is a composite its own count.
RECURSIVE GetTotalDescendantCount(_, _)
GetTotalDescendantCount(nodes, i) ==
    LET children == ChildIndexes(nodes, i)
        RECURSIVE CountFrom(_)
        CountFrom(k) ==
            IF k > Len(children) THEN 0
            ELSE (IF nodes[children[k]].composite
                  THEN GetTotalDescendantCount(nodes, children[k])
                  ELSE 0) + CountFrom(k + 1)
    IN  Len(children) + CountFrom(1)

\* toJSON of TopicLeaf and of TopicComposite.
RECURSIVE ToJSON(_, _)
ToJSON(nodes, i) ==
    IF nodes[i].composite
    THEN LET children == ChildIndexes(nodes, i) IN
         [topic |-> nodes[i].topic,
          children |-> [k \in 1..Len(children) |-> ToJSON(nodes, children[k])],
          isComposite |-> TRUE,
          childCount |-> Len(children),
          totalDescendants |-> GetTotalDescendantCount(nodes, i)]
    ELSE [topic |-> nodes[i].topic,
          children |-> <<>>,
          isComposite |-> FALSE,
          childCount |-> 0]

\* The root filter of buildAllTopicTrees, were it to read every version
\* whatever onlyLatest says.
RootTopicsOfAllVersions(s, onlyLatest) ==
    SelectSeq(s, LAMBDA t : t.parentTopicId = NoId)

\* buildAllTopicTrees: the stored topics without a parentTopicId.
RootTopics(s, onlyLatest) ==
    SelectSeq(IF onlyLatest THEN Find(s, [isLatest |-> TRUE]) ELSE s,
              LAMBDA t : t.parentTopicId = NoId)

TreeCall(op, topicId, onlyLatest) ==
    [op |-> op, startTopicId |-> topicId, endTopicId |-> NoId,
     onlyLatest |-> onlyLatest]

\* The check at the head of the loop of getTopicPath, and the same loop
\* without it.
NeverCircular(w) == FALSE

CircularReference(w) == w.current.id \in w.visitedIds

\* getTopicPath up to its loop.
GetTopicPathCall(topicId, onlyLatest) ==
    /\ pc = "idle"
    /\ call' = TreeCall("getTopicPath", topicId, onlyLatest)
    /\ walk' = [path |-> <<>>,
                current |-> TreeGetTopicById(store, topicId, onlyLatest),
                visitedIds |-> {}]
    /\ pc' = "walk"
    /\ UNCHANGED <<store, build, treeResult, pathVars, crudVars, faultVars,
                 queueVars, updating>>

\* One pass of the while loop of getTopicPath, or its exit.
PathIterate ==
    /\ pc = "walk"
    /\ IF IsNull(walk.current)
       THEN /\ pc' = "done"
            /\ treeResult' = [kind |-> "path", path |-> walk.path,
                              nodes |-> <<>>]
            /\ walk' = walk
       ELSE IF CircularReference(walk)
            THEN /\ pc' = "done"
                 /\ treeResult' = [kind |-> "circular", path |-> <<>>,
                                   nodes |-> <<>>]
                 /\ walk' = walk
            ELSE LET path == <<walk.current>> \o walk.path
                     visited == walk.visitedIds \cup {walk.current.id}
                 IN  IF walk.current.parentTopicId # NoId
                     THEN /\ pc' = "walk"
                          /\ walk' = [path |-> path,
                                      current |-> TreeGetTopicById(store,
                                          walk.current.parentTopicId,
                                          call.onlyLatest),
                                      visitedIds |-> visited]
                          /\ treeResult' = treeResult
                     ELSE /\ pc' = "done"
                          /\ walk' = [walk EXCEPT !.path = path,
                                                  !.visitedIds = visited]
                          /\ treeResult' = [kind |-> "path", path |-> path,
                                            nodes |-> <<>>]
    /\ UNCHANGED <<store, call, build, pathVars, crudVars, faultVars,
                 queueVars, updating>>

\* buildTopicTree, or getTopicDescendants (which calls it), up to the
\* recursion.  A topic that is not found ends the call at once: null, or
\* the empty list.
BuildTopicTreeCall(op, topicId, onlyLatest) ==
    /\ pc = "idle"
    /\ op \in {"buildTopicTree", "getTopicDescendants"}
    /\ call' = TreeCall(op, topicId, onlyLatest)
    /\ LET topic == TreeGetTopicById(store, topicId, onlyLatest) IN
       IF IsNull(topic)
       THEN /\ pc' = "done"
            /\ build' = IdleBuild
            /\ treeResult' = [kind |-> IF op = "buildTopicTree" THEN "null"
                                       ELSE "list",
                              path |-> <<>>, nodes |-> <<>>]
       ELSE /\ pc' = "build"
            /\ build' = StartTree(store, IdleBuild, topic, onlyLatest)
            /\ treeResult' = treeResult
    /\ UNCHANGED <<store, walk, pathVars, crudVars, faultVars,
                 queueVars, updating>>

\* buildAllTopicTrees up to its loop over the root topics.
BuildAllTopicTreesCall(onlyLatest) ==
    /\ pc = "idle"
    /\ call' = TreeCall("buildAllTopicTrees", NoId, onlyLatest)
    /\ pc' = "build"
    /\ build' = IdleBuild
    /\ walk' = [IdleWalk EXCEPT !.path = RootTopics(store, onlyLatest)]
    /\ UNCHANGED <<store, treeResult, pathVars, crudVars, faultVars,
                 queueVars, updating>>

\* What the finished call hands back.
TreeAnswer(op, b) ==
    IF op = "getTopicDescendants"
    THEN [kind |-> "list",
          path |-> IF b.nodes[1].composite THEN Descendants(b.nodes) ELSE <<>>,
          nodes |-> <<>>]
    ELSE [kind |-> IF op = "buildTopicTree" THEN "tree" ELSE "forest",
          path |-> <<>>, nodes |-> b.nodes]

\* One step of a tree construction: the next child of the innermost
\* buildChildren, its return, the next root of buildAllTopicTrees, or the
\* return of the call.  walk.path holds the roots still to be built.  The
\* model follows the recursion until one more frame is open than the store
\* has records, and no further.
BuildStep ==
    /\ pc = "build"
    /\ IF build.stack # <<>>
       THEN LET frame == build.stack[Len(build.stack)] IN
            IF frame.children = <<>>
            THEN /\ build' = [build EXCEPT !.stack =
                                 SubSeq(@, 1, Len(@) - 1)]
                 /\ UNCHANGED <<pc, walk, treeResult>>
            ELSE /\ Len(build.stack) <= Len(store)
                 /\ build' = BuildChild(store, build, call.onlyLatest)
                 /\ UNCHANGED <<pc, walk, treeResult>>
       ELSE IF walk.path # <<>>
            THEN LET topic == TreeGetTopicById(store, Head(walk.path).id,
                                               call.onlyLatest)
                 IN  /\ walk' = [walk EXCEPT !.path = Tail(@)]
                     /\ build' = IF IsNull(topic) THEN build
                                 ELSE StartTree(store, build, topic,
                                                call.onlyLatest)
                     /\ UNCHANGED <<pc, treeResult>>
            ELSE /\ pc' = "done"
                 /\ treeResult' = TreeAnswer(call.op, build)
                 /\ UNCHANGED <<build, walk>>
    /\ UNCHANGED <<store, call, pathVars, crudVars, faultVars,
                 queueVars, updating>>

NextTree ==
    \/ \E id \in QueryIds(store), ol \in BOOLEAN : GetTopicPathCall(id, ol)
    \/ PathIterate
    \/ \E op \in {"buildTopicTree", "getTopicDescendants"},
          id \in QueryIds(store), ol \in BOOLEAN :
           BuildTopicTreeCall(op, id, ol)
    \/ \E ol \in BOOLEAN : BuildAllTopicTreesCall(ol)
    \/ BuildStep

SpecTree == InitServices /\ [][NextTree]_vars

\* The two services over one store: every call of either.
NextServices ==
    \/ NextPath
    \/ NextTree

SpecServices == InitServices /\ [][NextServices]_vars

\* --------------------------------- TopicTreeService over a failing store
\* find('topics', {}): no criterion.
AllCriteria == [field \in {} |-> NoId]

\* getTopicById of TopicTreeService rejects: a query it makes throws, and
\* its catch block throws on.
TreeGetTopicByIdThrows(s, f, topicId, onlyLatest) ==
    \/ Throws(f, ByIdQuery(topicId))
    \/ /\ onlyLatest
       /\ LET topic == FindById(s, topicId) IN
          /\ ~IsNull(topic)
          /\ ~topic.isLatest
          /\ Throws(f, FindQuery(LatestOfBaseCriteria(topic.baseTopicId)))

\* hasChildren with its catch: false when the query throws.
HasChildrenCaught(s, f, baseTopicId) ==
    IF Throws(f, FindQuery([parentTopicId |-> baseTopicId,
                            isLatest |-> TRUE]))
    THEN [value |-> FALSE, errors |-> {Logged("hasChildren", baseTopicId)}]
    ELSE [value |-> HasChildren(s, baseTopicId), errors |-> {}]

\* buildChildren is entered for the node at the end of b.nodes when it is a
\* composite: its query either throws, and buildChildren rejects, or gives
\* the children of a new frame.
EnterBuildChildrenCaught(s, f, b, onlyLatest) ==
    LET node == b.nodes[Len(b.nodes)] IN
    IF node.composite
          /\ Throws(f, FindQuery(ChildCriteria(node.topic.id, onlyLatest)))
    THEN [build |-> b, rejected |-> TRUE,
          errors |-> {Logged("buildChildren", node.topic.id)}]
    ELSE [build |-> EnterBuildChildren(s, b, onlyLatest), rejected |-> FALSE,
          errors |-> {}]

\* The catch of the loop over the roots, were the tree that failed pushed
\* to the result all the same.
KeepRoot(b) == b

\* The catch of the loop over the roots: the component created for the
\* root whose buildTopicTree rejected is never pushed to 'trees'.
OmitRoot(b) == [b EXCEPT !.nodes = SubSeq(@, 1, Len(@) - 1)]

\* buildAllTopicTrees up to its loop over the root topics, over a database
\* where the queries of f throw.
BuildAllTopicTreesCaught(onlyLatest, f) ==
    /\ pc = "idle"
    /\ call' = TreeCall("buildAllTopicTrees", NoId, onlyLatest)
    /\ failing' = f
    /\ build' = IdleBuild
    /\ IF Throws(f, FindQuery(IF onlyLatest THEN [isLatest |-> TRUE]
                              ELSE AllCriteria))
       THEN /\ pc' = "done"
            /\ walk' = IdleWalk
            /\ treeResult' = [kind |-> "rejected", path |-> <<>>,
                              nodes |-> <<>>]
            /\ errors' = {Logged("buildAllTopicTrees", NoId)}
       ELSE /\ pc' = "build"
            /\ walk' = [IdleWalk EXCEPT !.path = RootTopics(store, onlyLatest)]
            /\ treeResult' = treeResult
            /\ errors' = {}
    /\ UNCHANGED <<store, pathVars, crudVars,
                 queueVars, updating>>

\* buildTopicTree up to the recursion, over a database where the queries of
\* f throw: the call rejects when the lookup of the topic or the query of
\* the root's buildChildren throws, the catch of hasChildren answers false.
BuildTopicTreeCaught(topicId, onlyLatest, f) ==
    /\ pc = "idle"
    /\ call' = TreeCall("buildTopicTree", topicId, onlyLatest)
    /\ failing' = f
    /\ LET topic == TreeGetTopicById(store, topicId, onlyLatest)
           hasChildren == HasChildrenCaught(store, f, BaseOrId(topic))
           b1 == [IdleBuild EXCEPT !.nodes =
                     Append(@, CreateComponent(topic, hasChildren.value, 0))]
           entered == EnterBuildChildrenCaught(store, f, b1, onlyLatest)
           rejection == [kind |-> "rejected", path |-> <<>>, nodes |-> <<>>]
       IN  IF TreeGetTopicByIdThrows(store, f, topicId, onlyLatest)
           THEN /\ pc' = "done"
                /\ build' = IdleBuild
                /\ treeResult' = rejection
                /\ errors' = {Logged("getTopicById", topicId),
                              Logged("buildTopicTree", topicId)}
           ELSE IF IsNull(topic)
           THEN /\ pc' = "done"
                /\ build' = IdleBuild
                /\ treeResult' = [kind |-> "null", path |-> <<>>,
                                  nodes |-> <<>>]
                /\ errors' = {}
           ELSE IF entered.rejected
           THEN /\ pc' = "done"
                /\ build' = entered.build
                /\ treeResult' = rejection
                /\ errors' = hasChildren.errors \cup entered.errors
                                 \cup {Logged("buildTopicTree", topicId)}
           ELSE /\ pc' = "build"
                /\ build' = entered.build
                /\ treeResult' = treeResult
                /\ errors' = hasChildren.errors
    /\ UNCHANGED <<store, walk, pathVars, crudVars, queueVars, updating>>

\* One step of the construction of a tree or of the forest over the failing
\* database: the next child of the innermost buildChildren, its return, the
\* next root, or the return of the call.
BuildStepCaught ==
    /\ pc = "build"
    /\ call.op \in {"buildAllTopicTrees", "buildTopicTree"}
    /\ IF build.stack # <<>>
       THEN LET top == Len(build.stack)
                frame == build.stack[top]
            IN  IF frame.children = <<>>
                THEN /\ build' = [build EXCEPT !.stack =
                                     SubSeq(@, 1, Len(@) - 1)]
                     /\ UNCHANGED <<pc, walk, treeResult, errors>>
                ELSE LET child == Head(frame.children)
                         hasGrandChildren ==
                             HasChildrenCaught(store, failing,
                                               BaseOrId(child))
                         b1 == [build EXCEPT
                                   !.stack[top].children = Tail(@),
                                   !.nodes = Append(@,
                                       CreateComponent(child,
                                           hasGrandChildren.value,
                                           frame.node))]
                         entered == EnterBuildChildrenCaught(store, failing,
                                        b1, call.onlyLatest)
                     IN  /\ Len(build.stack) <= Len(store)
                         /\ build' = entered.build
                         /\ errors' =
                                errors \cup hasGrandChildren.errors
                                    \cup entered.errors
                                    \cup (IF entered.rejected
                                          THEN {Logged("child", child.id)}
                                          ELSE {})
                         /\ UNCHANGED <<pc, walk, treeResult>>
       ELSE IF walk.path # <<>>
       THEN LET rootTopic == Head(walk.path)
                topic == TreeGetTopicById(store, rootTopic.id,
                                          call.onlyLatest)
                hasChildren == HasChildrenCaught(store, failing,
                                                 BaseOrId(topic))
                b1 == [build EXCEPT !.nodes =
                          Append(@, CreateComponent(topic, hasChildren.value,
                                                    0))]
                entered == EnterBuildChildrenCaught(store, failing, b1,
                                                    call.onlyLatest)
                rejected == {Logged("buildTopicTree", rootTopic.id),
                             Logged("rootTopic", rootTopic.id)}
            IN  /\ walk' = [walk EXCEPT !.path = Tail(@)]
                /\ UNCHANGED <<pc, treeResult>>
                /\ IF TreeGetTopicByIdThrows(store, failing, rootTopic.id,
                                             call.onlyLatest)
                   THEN /\ build' = build
                        /\ errors' =
                               errors \cup rejected
                                   \cup {Logged("getTopicById", rootTopic.id)}
                   ELSE IF IsNull(topic)
                   THEN UNCHANGED <<build, errors>>
                   ELSE IF entered.rejected
                   THEN /\ build' = OmitRoot(entered.build)
                        /\ errors' = errors \cup hasChildren.errors
                                         \cup entered.errors \cup rejected
                   ELSE /\ build' = entered.build
                        /\ errors' = errors \cup hasChildren.errors
       ELSE /\ pc' = "done"
            /\ treeResult' = TreeAnswer(call.op, build)
            /\ UNCHANGED <<build, walk, errors>>
    /\ UNCHANGED <<store, call, failing, pathVars, crudVars,
                 queueVars, updating>>

NextTreeFaulty ==
    \/ \E ol \in BOOLEAN, f \in Failures(store) :
           BuildAllTopicTreesCaught(ol, f)
    \/ BuildStepCaught

SpecTreeFaulty == InitFaulty /\ [][NextTreeFaulty]_vars

NextBuildTreeFaulty ==
    \/ \E id \in QueryIds(store), ol \in BOOLEAN, f \in Failures(store) :
           BuildTopicTreeCaught(id, ol, f)
    \/ BuildStepCaught

SpecBuildTreeFaulty == InitFaulty /\ [][NextBuildTreeFaulty]_vars

\* -------------------------------------------------------- TopicController
\* InMemoryDatabase.create: the record takes the place of the stored record
\* of the same id, or is added at the end.
DbCreate(s, record) ==
    IF \E i \in 1..Len(s) : s[i].id = record.id
    THEN [i \in 1..Len(s) |-> IF s[i].id = record.id THEN record ELSE s[i]]
    ELSE Append(s, record)

\* InMemoryDatabase.updateById: the given fields over the stored ones.
DbUpdateById(s, id, record) ==
    [i \in 1..Len(s) |-> IF s[i].id = id THEN record ELSE s[i]]

\* InMemoryDatabase.deleteById.
DbDeleteById(s, id) == SelectSeq(s, LAMBDA t : t.id # id)

\* TopicModel.create: the ids of the body when it has them, generated ones
\* otherwise ('n' is the next value of generateId); version 1 and latest
\* unless the body says otherwise.
TopicModelCreate(body, n) ==
    LET id == IF body.id # NoId THEN body.id ELSE n
        m == IF body.id # NoId THEN n ELSE n + 1
        baseTopicId == IF body.baseTopicId # NoId THEN body.baseTopicId
                       ELSE IF body.id # NoId THEN body.id
                       ELSE m
    IN  [id |-> id,
         baseTopicId |-> baseTopicId,
         version |-> IF body.version # 0 THEN body.version ELSE 1,
         isLatest |-> body.isLatest,
         parentTopicId |-> body.parentTopicId]

\* TopicModel.createVersion: the existing topic under the update, with a
\* new id, the same baseTopicId, the next version number, and latest.
CreateVersion(existingTopic, updateData, n) ==
    [id |-> n,
     baseTopicId |-> existingTopic.baseTopicId,
     version |-> existingTopic.version + 1,
     isLatest |-> TRUE,
     parentTopicId |-> IF updateData.hasParent THEN updateData.parentTopicId
                       ELSE existingTopic.parentTopicId]

\* TopicModel.markAsOldVersion.
MarkAsOldVersion(topic) == [topic EXCEPT !.isLatest = FALSE]

\* The identifiers a client has seen in responses.
Known(s) ==
    ({s[i].id : i \in 1..Len(s)} \cup {s[i].baseTopicId : i \in 1..Len(s)}
        \cup {s[i].parentTopicId : i \in 1..Len(s)}) \ {NoId}

\* The first value above every identifier in use.
NextFree(n, topic) ==
    Max(n, Max(topic.id, topic.baseTopicId) + 1)

\* The bodies of POST /topics.  'valid' is the verdict of TopicModel.validate
\* on the fields that are not modelled (name, content); every identifier is
\* taken to be a well-formed UUID.  A body without isLatest counts as
\* isLatest = TRUE, one without version as version = 0.  With 'mayChoose'
\* the body may carry id, baseTopicId, version and isLatest.
CreateBodies(s, n, mayChoose) ==
    [id : IF mayChoose THEN {NoId, n} \cup Known(s) ELSE {NoId},
     baseTopicId : IF mayChoose THEN {NoId, n} \cup Known(s) ELSE {NoId},
     parentTopicId : {NoId, n} \cup Known(s),
     version : IF mayChoose THEN {0} \cup 2..MaxBodyVersion ELSE {0},
     isLatest : IF mayChoose THEN BOOLEAN ELSE {TRUE},
     valid : {TRUE}]
    \cup {[id |-> NoId, baseTopicId |-> NoId, parentTopicId |-> NoId,
            version |-> 0, isLatest |-> TRUE, valid |-> FALSE]}

\* The body chooses none of id, baseTopicId, version and isLatest.
Plain(body) ==
    /\ body.id = NoId
    /\ body.baseTopicId = NoId
    /\ body.version = 0
    /\ body.isLatest

\* The bodies of PUT /topics/:id: parentTopicId left out, cleared (NoId) or
\* given; id, baseTopicId, version and isLatest of the body are overwritten
\* by createVersion.
UpdateBodies(s, n) ==
    {u \in [hasParent : BOOLEAN,
            parentTopicId : {NoId, n} \cup Known(s),
            valid : BOOLEAN] :
        /\ ~u.hasParent => u.parentTopicId = NoId
        /\ ~u.valid => ~u.hasParent}

\* The body that changes name or content only.
ContentUpdate == [hasParent |-> FALSE, parentTopicId |-> NoId, valid |-> TRUE]

Respond(op, id, status, topic) ==
    [op |-> op, id |-> id, status |-> status, topic |-> topic]

\* POST /topics.
CreateTopic(topicData) ==
    /\ pc = "idle"
    /\ Plain(topicData) \/ supplied < MaxSupplied
    /\ supplied' = IF Plain(topicData) THEN supplied ELSE supplied + 1
    /\ IF ~topicData.valid
       THEN /\ response' = Respond("createTopic", NoId, 400, NullTopic)
            /\ UNCHANGED <<store, nextId>>
       ELSE IF /\ topicData.parentTopicId # NoId
               /\ IsNull(FindById(store, topicData.parentTopicId))
            THEN /\ response' = Respond("createTopic", NoId, 404, NullTopic)
                 /\ UNCHANGED <<store, nextId>>
            ELSE LET newTopic == TopicModelCreate(topicData, nextId) IN
                 /\ NextFree(nextId, newTopic) <= MaxIds + 1
                 /\ Len(DbCreate(store, newTopic)) <= MaxStored
                 /\ store' = DbCreate(store, newTopic)
                 /\ nextId' = NextFree(nextId, newTopic)
                 /\ response' = Respond("createTopic", newTopic.id, 201,
                                        newTopic)
    /\ UNCHANGED <<pc, call, pathVars, treeVars, faultVars,
                 queueVars, updating>>

\* PUT /topics/:id.
UpdateTopic(id, updateData) ==
    /\ pc = "idle"
    /\ LET existingTopic == FindById(store, id) IN
       IF id = NoId
       THEN /\ response' = Respond("updateTopic", id, 400, NullTopic)
            /\ UNCHANGED <<store, nextId>>
       ELSE IF IsNull(existingTopic)
       THEN /\ response' = Respond("updateTopic", id, 404, NullTopic)
            /\ UNCHANGED <<store, nextId>>
       ELSE IF ~updateData.valid
       THEN /\ response' = Respond("updateTopic", id, 400, NullTopic)
            /\ UNCHANGED <<store, nextId>>
       ELSE IF /\ updateData.parentTopicId # NoId
               /\ updateData.parentTopicId # existingTopic.parentTopicId
               /\ \/ updateData.parentTopicId = existingTopic.baseTopicId
                  \/ Len(Find(store,
                              [baseTopicId |-> updateData.parentTopicId,
                               isLatest |-> TRUE])) = 0
       THEN /\ response' = Respond("updateTopic", id, 400, NullTopic)
            /\ UNCHANGED <<store, nextId>>
       ELSE LET newVersion == CreateVersion(existingTopic, updateData, nextId)
                oldVersion == MarkAsOldVersion(existingTopic)
            IN  /\ nextId <= MaxIds
                /\ Len(store) < MaxStored
                /\ store' = DbCreate(DbUpdateById(store, existingTopic.id,
                                                  oldVersion),
                                     newVersion)
                /\ nextId' = nextId + 1
                /\ response' = Respond("updateTopic", id, 200, newVersion)
    /\ UNCHANGED <<pc, call, pathVars, treeVars, faultVars, supplied,
                 queueVars, updating>>

\* DELETE /topics/:id.
DeleteTopic(id) ==
    /\ pc = "idle"
    /\ LET existingTopic == FindById(store, id) IN
       IF id = NoId
       THEN /\ response' = Respond("deleteTopic", id, 400, NullTopic)
            /\ store' = store
       ELSE IF IsNull(existingTopic)
       THEN /\ response' = Respond("deleteTopic", id, 404, NullTopic)
            /\ store' = store
       ELSE IF Len(Find(store, [parentTopicId |-> id])) > 0
       THEN /\ response' = Respond("deleteTopic", id, 400, NullTopic)
            /\ store' = store
       ELSE /\ store' = DbDeleteById(store, id)
            /\ response' = Respond("deleteTopic", id, 200, existingTopic)
    /\ UNCHANGED <<pc, call, pathVars, treeVars, faultVars, nextId, supplied,
                 queueVars, updating>>

\* The server after start-up: an empty store, no request served yet.
Init ==
    /\ store = <<>>
    /\ pc = "idle"
    /\ call = IdleCall
    /\ bfs = IdleBfs
    /\ result = NoResult
    /\ walk = IdleWalk
    /\ build = IdleBuild
    /\ treeResult = NoTreeResult
    /\ nextId = 1
    /\ response = NoResponse
    /\ supplied = 0
    /\ failing = {}
    /\ errors = {}
    /\ queue = EmptyQueue
    /\ ghost = IdleGhost
    /\ updating = NoUpdate

RequestIds == {NoId, nextId} \cup Ids(store)

Next ==
    \/ \E topicData \in CreateBodies(store, nextId, supplied < MaxSupplied) :
           CreateTopic(topicData)
    \/ \E id \in Ids(store), updateData \in UpdateBodies(store, nextId) :
           UpdateTopic(id, updateData)
    \/ \E id \in {NoId, nextId} : UpdateTopic(id, ContentUpdate)
    \/ \E id \in RequestIds : DeleteTopic(id)

Spec == Init /\ [][Next]_vars

\* The same server when nothing is deleted.
NextCreateUpdate ==
    \/ \E topicData \in CreateBodies(store, nextId, supplied < MaxSupplied) :
           CreateTopic(topicData)
    \/ \E id \in Ids(store), updateData \in UpdateBodies(store, nextId) :
           UpdateTopic(id, updateData)
    \/ \E id \in {NoId, nextId} : UpdateTopic(id, ContentUpdate)

SpecCreateUpdate == Init /\ [][NextCreateUpdate]_vars

\* ------------------------------- updateTopic, one database call at a time
\* The stores a request meets: the hierarchies of up to MaxFaultyStored
\* records, with generateId past every identifier in use.
FreshId(s) ==
    LET known == Known(s) \cup {NoId}
    IN  1 + CHOOSE m \in known : \A k \in known : k <= m

InitStepwise ==
    /\ store \in FaultyStores
    /\ nextId = FreshId(store)
    /\ pc = "idle"
    /\ call = IdleCall
    /\ bfs = IdleBfs
    /\ result = NoResult
    /\ walk = IdleWalk
    /\ build = IdleBuild
    /\ treeResult = NoTreeResult
    /\ response = NoResponse
    /\ supplied = 0
    /\ failing = {}
    /\ errors = {}
    /\ queue = EmptyQueue
    /\ ghost = IdleGhost
    /\ updating = NoUpdate

\* PUT /topics/:id up to and including its first write: the request is
\* answered at once when it is refused, and otherwise updateById has stored
\* the old version with isLatest = false.
UpdateMarkOld(id, updateData) ==
    /\ updating.stage = "none"
    /\ LET existingTopic == FindById(store, id)
           refused(status) ==
               /\ response' = Respond("updateTopic", id, status, NullTopic)
               /\ updating' = [updating EXCEPT !.stage = "answered",
                                               !.id = id,
                                               !.before = store]
               /\ UNCHANGED <<store, nextId>>
       IN  IF id = NoId THEN refused(400)
           ELSE IF IsNull(existingTopic) THEN refused(404)
           ELSE IF ~updateData.valid THEN refused(400)
           ELSE IF /\ updateData.parentTopicId # NoId
                   /\ updateData.parentTopicId # existingTopic.parentTopicId
                   /\ \/ updateData.parentTopicId = existingTopic.baseTopicId
                      \/ Len(Find(store,
                                  [baseTopicId |-> updateData.parentTopicId,
                                   isLatest |-> TRUE])) = 0
           THEN refused(400)
           ELSE /\ store' = DbUpdateById(store, existingTopic.id,
                                         MarkAsOldVersion(existingTopic))
                /\ nextId' = nextId + 1
                /\ updating' = [stage |-> "marked", id |-> id,
                                newVersion |->
                                    CreateVersion(existingTopic, updateData,
                                                  nextId),
                                before |-> store]
                /\ response' = response
    /\ UNCHANGED <<pc, call, pathVars, treeVars, faultVars, supplied,
                   queueVars>>

\* The second write of the request, and its answer.
UpdateInsertNew ==
    /\ updating.stage = "marked"
    /\ store' = DbCreate(store, updating.newVersion)
    /\ response' = Respond("updateTopic", updating.id, 200,
                           updating.newVersion)
    /\ updating' = [updating EXCEPT !.stage = "answered"]
    /\ UNCHANGED <<pc, call, pathVars, treeVars, faultVars, nextId, supplied,
                   queueVars>>

\* The second write throws: the catch block of updateTopic logs and
\* answers 500.
UpdateCreateFails ==
    /\ updating.stage = "marked"
    /\ store' = store
    /\ response' = Respond("updateTopic", updating.id, 500, NullTopic)
    /\ errors' = errors \cup {Logged("updateTopic", updating.id)}
    /\ updating' = [updating EXCEPT !.stage = "answered"]
    /\ UNCHANGED <<pc, call, pathVars, treeVars, failing, nextId, supplied,
                   queueVars>>

\* findShortestPath(onlyLatest = true) up to the call of bfs.  The two
\* topics it resolved stay with the search: bfs reads them, not the store.
SearchCall(startTopicId, endTopicId) ==
    /\ pc = "idle"
    /\ call' = [op |-> "findShortestPath", startTopicId |-> startTopicId,
                endTopicId |-> endTopicId, onlyLatest |-> TRUE]
    /\ LET startTopic == GetTopicById(store, startTopicId, TRUE)
           endTopic == GetTopicById(store, endTopicId, TRUE)
       IN  IF IsNull(startTopic) \/ IsNull(endTopic)
               \/ startTopicId = endTopicId
           THEN /\ pc' = "done"
                /\ result' = FindShortestPath(store, startTopicId,
                                              endTopicId, TRUE)
                /\ walk' = walk
                /\ bfs' = bfs
           ELSE /\ pc' = "bfs"
                /\ bfs' = BfsStart(startTopic)
                /\ walk' = [walk EXCEPT !.path = <<startTopic, endTopic>>]
                /\ result' = NoResult
    /\ UNCHANGED <<store, build, treeResult, crudVars, faultVars, queueVars,
                   updating>>

\* One pass of the while loop of bfs, or its exit, over the store as it is
\* at this moment.
SearchIterate ==
    /\ pc = "bfs"
    /\ LET startTopic == walk.path[1]
           endTopic == walk.path[2]
       IN  IF QIsEmpty(bfs.queue)
           THEN /\ pc' = "done"
                /\ result' = CreateEmptyResult(bfs.nodesExplored,
                                               bfs.maxDepth)
                /\ bfs' = bfs
           ELSE IF QFront(bfs.queue) = endTopic.id
           THEN /\ pc' = "done"
                /\ result' = BfsFound(store, bfs, startTopic, endTopic, TRUE)
                /\ bfs' = [bfs EXCEPT !.queue = Dequeue(@),
                                      !.nodesExplored = @ + 1]
           ELSE /\ pc' = "bfs"
                /\ bfs' = BfsExpand(store, bfs, startTopic, TRUE)
                /\ result' = result
    /\ UNCHANGED <<store, call, treeVars, crudVars, faultVars, queueVars,
                   updating>>

\* One update request beside one search.
NextInterleaved ==
    \/ \E id \in Ids(store) \cup {NoId, nextId},
          updateData \in UpdateBodies(store, nextId) :
           UpdateMarkOld(id, updateData)
    \/ UpdateInsertNew
    \/ \E a \in QueryIds(store), b \in QueryIds(store) : SearchCall(a, b)
    \/ SearchIterate

SpecInterleaved == InitStepwise /\ [][NextInterleaved]_vars

\* One update request whose second write may throw.
NextUpdateFails ==
    \/ \E id \in Ids(store) \cup {NoId, nextId},
          updateData \in UpdateBodies(store, nextId) :
           UpdateMarkOld(id, updateData)
    \/ UpdateInsertNew
    \/ UpdateCreateFails

SpecUpdateFails == InitStepwise /\ [][NextUpdateFails]_vars

\* ------------------------------------------------ a client of the Queue
\* The client may call dequeue once more than it can enqueue.
MaxDequeueCalls == MaxEnqueues + 1

\* queue.enqueue(item)
QueueEnqueue(item) ==
    /\ ghost.enqueues < MaxEnqueues
    /\ queue' = Enqueue(queue, item)
    /\ ghost' = [ghost EXCEPT !.fifo = Append(@, item),
                              !.enqueues = @ + 1]
    /\ UNCHANGED <<store, pc, call, pathVars, treeVars, crudVars, faultVars,
                   updating>>

\* queue.dequeue(): 'returned' is what the call gave back, 'expected' the
\* oldest item the client has enqueued and not got back (NoId for none).
QueueDequeue ==
    /\ ghost.calls < MaxDequeueCalls
    /\ queue' = Dequeue(queue)
    /\ ghost' = [ghost EXCEPT
                    !.calls = @ + 1,
                    !.returned = QFront(queue),
                    !.expected = IF ghost.fifo = <<>> THEN NoId
                                 ELSE Head(ghost.fifo),
                    !.fifo = IF @ = <<>> THEN @ ELSE Tail(@),
                    !.dequeues = IF QFront(queue) = NoId THEN @ ELSE @ + 1]
    /\ UNCHANGED <<store, pc, call, pathVars, treeVars, crudVars, faultVars,
                   updating>>

NextQueue ==
    \/ \E item \in 1..MaxItem : QueueEnqueue(item)
    \/ QueueDequeue

SpecQueue == Init /\ [][NextQueue]_vars

\* ------------------------------------------------- the hierarchy as a graph
Records(s) == {s[i] : i \in 1..Len(s)}

LatestRecords(s) == {t \in Records(s) : t.isLatest}

\* Each baseTopicId has exactly one latest version.
OneLatestPerBase(s) ==
    \A t \in Records(s) :
        Cardinality({u \in LatestRecords(s) : u.baseTopicId = t.baseTopicId}) = 1

\* Every parentTopicId is the baseTopicId of a stored topic.
ParentsAreBases(s) ==
    \A t \in Records(s) :
        t.parentTopicId # NoId =>
            \E u \in Records(s) : u.baseTopicId = t.parentTopicId

\* No baseTopicId is at the same time the id of a version of another topic.
NoIdBaseClash(s) ==
    \A t \in Records(s), u \in Records(s) :
        u.id = t.baseTopicId => u.baseTopicId = t.baseTopicId

\* The latest version of the topic a stored id belongs to.
LatestVersionOf(s, id) ==
    CHOOSE u \in LatestRecords(s) : u.baseTopicId = FindById(s, id).baseTopicId

\* Latest versions joined by one parent/child link, in either direction.
Linked(t, u) ==
    \/ t.parentTopicId # NoId /\ t.parentTopicId = u.baseTopicId
    \/ u.parentTopicId # NoId /\ u.parentTopicId = t.baseTopicId

\* The least number of links from a topic of 'seen' to 'goal', counting
\* from d; -1 when no chain of links exists.
RECURSIVE LinkDistance(_, _, _, _)
LinkDistance(s, seen, goal, d) ==
    IF goal \in seen THEN d
    ELSE LET next == seen \cup {u \in LatestRecords(s) :
                                   \E t \in seen : Linked(t, u)}
         IN  IF next = seen THEN -1
             ELSE LinkDistance(s, next, goal, d + 1)

HierarchyDistance(s, a, b) ==
    LinkDistance(s, {LatestVersionOf(s, a)}, LatestVersionOf(s, b), 0)

Returned == pc = "done" /\ call.op = "findShortestPath"

\* The call C1 is about has returned: a latest-only search between two
\* stored topics of a well-formed store that a chain of links joins.
C1_Case ==
    /\ Returned
    /\ call.onlyLatest
    /\ OneLatestPerBase(store)
    /\ ParentsAreBases(store)
    /\ call.startTopicId \in Ids(store)
    /\ call.endTopicId \in Ids(store)
    /\ HierarchyDistance(store, call.startTopicId, call.endTopicId) >= 0

C1_Answer ==
    /\ result.pathExists
    /\ result.distance =
           HierarchyDistance(store, call.startTopicId, call.endTopicId)

\* C1: on every store with one latest version per baseTopicId and
\* every parentTopicId a stored baseTopicId, findShortestPath(A, B, true)
\* between two linked topics finds a path whose distance is the least
\* number of parent/child links between their latest versions.
C1_AsStated == C1_Case => C1_Answer

\* C2: a returned path has distance + 1 entries, begins with the resolved
\* start topic, ends with the resolved end topic, and each entry is a
\* neighbor (getTopicNeighbors) of the next one or the other way round.
C2_PathValid ==
    (Returned /\ result.pathExists) =>
        /\ Len(result.path) = result.distance + 1
        /\ result.path[1] = StartTopic
        /\ result.path[Len(result.path)] = EndTopic
        /\ \A i \in 1..(Len(result.path) - 1) :
               LET x == result.path[i]
                   y == result.path[i + 1]
                   in(t, q) == \E j \in 1..Len(q) : q[j] = t
               IN  \/ in(y, GetTopicNeighbors(store, x, call.onlyLatest))
                   \/ in(x, GetTopicNeighbors(store, y, call.onlyLatest))

\* A path of three topics whose start was asked for by a stale version id.
C2_Witness ==
    /\ Returned
    /\ result.pathExists
    /\ result.distance >= 2
    /\ StartTopic.id # call.startTopicId

\* A store as the data model describes it.
WellFormed(s) ==
    /\ OneLatestPerBase(s)
    /\ ParentsAreBases(s)
    /\ NoIdBaseClash(s)
    /\ \A t \in Records(s) : t.parentTopicId # t.baseTopicId

\* C3: when findShortestPath(A, B, onlyLatest) finds a path of distance d,
\* the search from B to A finds one of distance d too.  The claim is about
\* every store; it is stated here for the well-formed ones, among them the
\* children whose parentTopicId is a baseTopicId, searched with
\* onlyLatest = false.
C3_Symmetric ==
    (Returned /\ result.pathExists /\ WellFormed(store)) =>
        LET back == FindShortestPath(store, call.endTopicId,
                                     call.startTopicId, call.onlyLatest)
        IN  back.pathExists /\ back.distance = result.distance

\* x names y as its parent, by y's id or by y's baseTopicId.
NamesAsParent(x, y) ==
    x.parentTopicId # NoId /\ x.parentTopicId \in {y.id, y.baseTopicId}

NoDuplicates(q) == \A i, j \in 1..Len(q) : q[i] = q[j] => i = j

SeqToSet(q) == {q[i] : i \in 1..Len(q)}

\* The bookkeeping of a running or finished bfs.
C4_Bounded ==
    (call.op = "findShortestPath" /\ pc \in {"bfs", "done"}) =>
        /\ NoDuplicates(bfs.enqueued)
        /\ SeqToSet(bfs.enqueued) = bfs.visited
        /\ bfs.nodesExplored + QSize(bfs.queue) = Len(bfs.enqueued)
        /\ bfs.nodesExplored <= Len(store)
        /\ result.nodesExplored <= Max(1, Len(store))

\* Two topics that name each other as parent are one link apart.
C4_MutualParents ==
    (/\ Returned
     /\ StartTopic.id = call.startTopicId
     /\ EndTopic.id = call.endTopicId
     /\ call.startTopicId # call.endTopicId
     /\ ~IsNull(StartTopic) /\ ~IsNull(EndTopic)
     /\ NamesAsParent(StartTopic, EndTopic)
     /\ NamesAsParent(EndTopic, StartTopic))
        => (result.pathExists /\ result.distance = 1)

\* Every pass of the loop either returns or explores one more id.
C4_Progress ==
    pc = "bfs" =>
        \/ pc' = "done"
        \/ pc' = "bfs" /\ bfs'.nodesExplored = bfs.nodesExplored + 1

\* C4: bfs marks an id visited when it enqueues it, so no id is enqueued
\* twice and nodesExplored never exceeds the number of stored topics; each
\* pass of the loop returns or explores one more id, so the search returns
\* after at most that many passes; and a cycle of two parents is answered
\* with distance 1.
C4_Terminates ==
    /\ [](C4_Bounded /\ C4_MutualParents)
    /\ [][C4_Progress]_vars

\* A search over a two-topic parent cycle has returned.
C4_Witness ==
    /\ Returned
    /\ call.startTopicId # call.endTopicId
    /\ ~IsNull(StartTopic) /\ ~IsNull(EndTopic)
    /\ NamesAsParent(StartTopic, EndTopic)
    /\ NamesAsParent(EndTopic, StartTopic)
    /\ result.distance = 1
    /\ bfs.nodesExplored = 2

\* ---------------------------------------------------------------- C5
\* The ancestors of a topic as getTopicPath resolves them, the topic first,
\* followed for at most 'fuel' topics.
RECURSIVE Ancestors(_, _, _, _)
Ancestors(s, topic, onlyLatest, fuel) ==
    IF IsNull(topic) \/ fuel = 0 THEN <<>>
    ELSE <<topic>> \o
         (IF topic.parentTopicId = NoId THEN <<>>
          ELSE Ancestors(s, TreeGetTopicById(s, topic.parentTopicId,
                                             onlyLatest),
                         onlyLatest, fuel - 1))

Reverse(seq) == [i \in 1..Len(seq) |-> seq[Len(seq) + 1 - i]]

\* The chain of ancestors of the topic the call started from comes back to
\* a topic it has passed: it is longer than the store has records.
C5_ChainCycles ==
    Len(Ancestors(store,
                  TreeGetTopicById(store, call.startTopicId, call.onlyLatest),
                  call.onlyLatest, Len(store) + 1)) > Len(store)

\* During the walk every topic of the path was visited once, so the path is
\* never longer than the store.
C5_Bounded ==
    pc = "walk" =>
        /\ Len(walk.path) = Cardinality(walk.visitedIds)
        /\ walk.visitedIds \subseteq Ids(store)
        /\ Len(walk.path) <= Len(store)

\* The finished call rejects with the circular reference error exactly when
\* the chain of ancestors cycles, and otherwise returns the chain, root
\* first.
C5_Outcome ==
    (pc = "done" /\ call.op = "getTopicPath") =>
        IF C5_ChainCycles
        THEN treeResult.kind = "circular"
        ELSE /\ treeResult.kind = "path"
             /\ treeResult.path =
                    Reverse(Ancestors(store,
                        TreeGetTopicById(store, call.startTopicId,
                                         call.onlyLatest),
                        call.onlyLatest, Len(store) + 1))

\* Every pass of the loop ends the call or visits one more topic.
C5_Progress ==
    pc = "walk" =>
        \/ pc' = "done"
        \/ /\ pc' = "walk"
           /\ Cardinality(walk'.visitedIds) = Cardinality(walk.visitedIds) + 1

\* C5: getTopicPath terminates on every finite store.  Each pass of its loop
\* ends the call or adds a topic id that was not yet visited, and the
\* visited ids are ids of stored topics, so there are at most as many passes
\* as records; when the walk along parentTopicId comes back to a visited
\* topic the call rejects with 'Circular reference detected', and otherwise
\* it returns the path.
C5_Terminates == [](C5_Bounded /\ C5_Outcome) /\ [][C5_Progress]_vars

\* A walk over two or more topics that ended with the circular reference
\* error.
C5_Witness ==
    /\ pc = "done"
    /\ call.op = "getTopicPath"
    /\ treeResult.kind = "circular"
    /\ Cardinality(walk.visitedIds) >= 2

\* ---------------------------------------------------------------- C6
\* No topic names itself as its parent: a cycle takes two topics or more.
NoSelfParent(s) ==
    \A t \in Records(s) : t.parentTopicId \notin {t.id, t.baseTopicId}

\* C6: buildTopicTree, buildAllTopicTrees and getTopicDescendants terminate
\* on every finite store, cycles of parent pointers included: the recursive
\* expansion of children never expands a topic inside its own expansion.
\* (buildChildren reads nothing but the store and the id of its composite,
\* so an expansion of a topic that is entered inside an expansion of the
\* same topic repeats it, and enters itself again, without end.)
C6_Terminates ==
    (pc = "build" /\ NoSelfParent(store)) => NoDuplicates(FrameIds(build))

\* The same for buildAllTopicTrees alone, which starts from the topics
\* without a parent only.
BuildAllNoReentry ==
    (pc = "build" /\ call.op = "buildAllTopicTrees") =>
        NoDuplicates(FrameIds(build))


\* ---------------------------------------------------------------- C7
\* C7: after any sequence of completed createTopic and updateTopic requests
\* from the empty store, updateTopic addressed to any stored version, every
\* baseTopicId of the store has exactly one version with isLatest = TRUE.
\* Stated for the requests that leave id, baseTopicId, version and isLatest
\* to the server.
C7_OneLatestPerBase == supplied = 0 => OneLatestPerBase(store)

\* ---------------------------------------------------------------- C8
VersionsOf(s, baseTopicId) == {t \in Records(s) : t.baseTopicId = baseTopicId}

\* The versions of one baseTopicId carry distinct numbers from 1 on, and
\* the latest one carries the highest.
VersionsInOrder(s) ==
    \A t \in Records(s) :
        /\ t.version >= 1
        /\ \A u \in VersionsOf(s, t.baseTopicId) :
               /\ u.version = t.version => u = t
               /\ u.isLatest => u.version >= t.version

\* C8: after any sequence of completed createTopic and updateTopic requests
\* the versions stored for one baseTopicId carry pairwise distinct version
\* numbers that start at 1, and the latest version carries the highest.
\* Stated for the requests that leave id, baseTopicId, version and isLatest
\* to the server.
C8_VersionsInOrder ==
    supplied = 0 =>
        /\ VersionsInOrder(store)
        /\ \A t \in Records(store) :
               \E u \in VersionsOf(store, t.baseTopicId) : u.version = 1

\* ---------------------------------------------------------------- C9
\* C9: after any sequence of completed createTopic, updateTopic and
\* deleteTopic requests from the empty store, every parentTopicId of the
\* store is the baseTopicId of a stored topic.  Stated for the requests
\* that leave id, baseTopicId, version and isLatest to the server.
C9_ParentsAreBases == supplied = 0 => ParentsAreBases(store)

\* ---------------------------------------------------------------- C10
\* C10: deleteTopic removes a topic only when no stored topic has a
\* parentTopicId that refers to it, by its baseTopicId or by its id: after
\* a delete that succeeded, no stored topic names the deleted topic as its
\* parent.  Stated for the requests that leave id, baseTopicId, version and
\* isLatest to the server, and for the deletion of the only version of a
\* topic.
C10_DeleteGuarded ==
    (/\ supplied = 0
     /\ response.op = "deleteTopic"
     /\ response.status = 200
     /\ VersionsOf(store, response.topic.baseTopicId) = {})
        => \A t \in Records(store) :
               t.parentTopicId \notin {response.topic.id,
                                       response.topic.baseTopicId}

\* ---------------------------------------------------------------- C11
\* C11: no sequence of createTopic and updateTopic requests, bodies that
\* choose their own id included, stores a topic whose parentTopicId equals
\* its own baseTopicId.
C11_NoSelfParentStored ==
    \A t \in Records(store) :
        t.parentTopicId # NoId => t.parentTopicId # t.baseTopicId

\* ---------------------------------------------------------------- C12
\* The latest versions of a baseTopicId, in insertion order.
LatestOfBase(s, baseTopicId) ==
    SelectSeq(s, LAMBDA t : t.isLatest /\ t.baseTopicId = baseTopicId)

\* 'topic' is what the requested id resolves to: with onlyLatest = FALSE the
\* stored record of that id; with onlyLatest = TRUE that record when it is
\* latest, else the first stored latest version of its baseTopicId;
\* not-found when no record has the id, or when the record is stale and its
\* baseTopicId has no latest version.
ResolvesTo(s, topicId, onlyLatest, topic) ==
    LET requested == {t \in Records(s) : t.id = topicId} IN
    IF requested = {} THEN IsNull(topic)
    ELSE \A t \in requested :
            IF ~onlyLatest \/ t.isLatest THEN topic = t
            ELSE IF Len(LatestOfBase(s, t.baseTopicId)) = 0 THEN IsNull(topic)
            ELSE /\ topic = LatestOfBase(s, t.baseTopicId)[1]
                 /\ topic.isLatest
                 /\ topic.baseTopicId = t.baseTopicId
                 /\ topic.id # topicId

\* Resolution as C12 words it: not-found only when no record has the id.
ResolvesAsStated(s, topicId, onlyLatest, topic) ==
    LET requested == {t \in Records(s) : t.id = topicId} IN
    IF requested = {} THEN IsNull(topic)
    ELSE \A t \in requested :
            IF ~onlyLatest \/ t.isLatest THEN topic = t
            ELSE /\ topic \in Records(s)
                 /\ topic.isLatest
                 /\ topic.baseTopicId = t.baseTopicId

\* C12: a requested id resolves, for onlyLatest = FALSE, to the stored topic
\* of that id or to not-found; for onlyLatest = TRUE, to the requested topic
\* when it is latest, otherwise to the latest version that shares its
\* baseTopicId, and to not-found only when no topic has the id.  A path
\* that findShortestPath returns starts at the topic the start id resolves
\* to (the latest version for a stale id and onlyLatest = TRUE, the stale
\* version itself for onlyLatest = FALSE).
C12_Resolution ==
    Returned =>
        /\ ResolvesAsStated(store, call.startTopicId, call.onlyLatest,
                            StartTopic)
        /\ ResolvesAsStated(store, call.endTopicId, call.onlyLatest, EndTopic)
        /\ result.pathExists =>
               ResolvesAsStated(store, call.startTopicId, call.onlyLatest,
                                result.path[1])

\* What the code does: the same, but a stale topic whose baseTopicId has no
\* latest version resolves to not-found.
ResolutionAsCoded ==
    Returned =>
        /\ ResolvesTo(store, call.startTopicId, call.onlyLatest, StartTopic)
        /\ ResolvesTo(store, call.endTopicId, call.onlyLatest, EndTopic)
        /\ result.pathExists =>
               /\ ResolvesTo(store, call.startTopicId, call.onlyLatest,
                             result.path[1])
               /\ ResolvesTo(store, call.endTopicId, call.onlyLatest,
                             result.path[Len(result.path)])

\* ---------------------------------------------------------------- C13
\* The id resolves to no stored topic: no record has it, or (latest only)
\* its record is stale and no latest version shares its baseTopicId.
Unresolved(s, topicId, onlyLatest) ==
    \A t \in Records(s) :
        t.id = topicId =>
            /\ onlyLatest
            /\ ~t.isLatest
            /\ Len(LatestOfBase(s, t.baseTopicId)) = 0

\* C13: when the start id or the end id does not resolve to a stored topic,
\* findShortestPath returns the no-path result (pathExists = FALSE,
\* distance = -1, empty path, nodesExplored = 0) and no bfs has been run.
C13_NoPathResult ==
    (/\ Returned
     /\ \/ Unresolved(store, call.startTopicId, call.onlyLatest)
        \/ Unresolved(store, call.endTopicId, call.onlyLatest))
        => /\ ~result.pathExists
           /\ result.distance = -1
           /\ result.path = <<>>
           /\ result.nodesExplored = 0
           /\ bfs = IdleBfs

\* A search from a stored topic to an id that is not stored has returned.
C13_Witness ==
    /\ Returned
    /\ call.startTopicId \in Ids(store)
    /\ ~Unresolved(store, call.startTopicId, call.onlyLatest)
    /\ call.endTopicId \notin Ids(store)
    /\ ~result.pathExists
    /\ result.nodesExplored = 0

\* ---------------------------------------------------------------- C14
\* C14: for any stored topic X and either value of onlyLatest,
\* findShortestPath(X.id, X.id, onlyLatest) returns pathExists = TRUE,
\* distance = 0, a one-element path holding the topic X.id resolves to and
\* nodesExplored = 1, and runs no bfs (so no neighbor is queried).
C14_SameTopic ==
    (/\ Returned
     /\ call.startTopicId = call.endTopicId
     /\ call.startTopicId \in Ids(store))
        => /\ result.pathExists
           /\ result.distance = 0
           /\ Len(result.path) = 1
           /\ ResolvesTo(store, call.startTopicId, call.onlyLatest,
                         result.path[1])
           /\ result.nodesExplored = 1
           /\ bfs = IdleBfs

\* What the code does: the same for the topics whose id resolves.
SameTopicWhenResolved ==
    (/\ Returned
     /\ call.startTopicId = call.endTopicId
     /\ ~Unresolved(store, call.startTopicId, call.onlyLatest))
        => /\ result.pathExists
           /\ result.distance = 0
           /\ Len(result.path) = 1
           /\ ResolvesTo(store, call.startTopicId, call.onlyLatest,
                         result.path[1])
           /\ ~IsNull(result.path[1])
           /\ result.nodesExplored = 1
           /\ bfs = IdleBfs

\* ---------------------------------------------------------------- C15
\* Two stored records are tied when one names the other as its parent (by
\* id or by baseTopicId) or when they are versions of one baseTopicId.
Tied(x, y) ==
    \/ NamesAsParent(x, y)
    \/ NamesAsParent(y, x)
    \/ x.baseTopicId = y.baseTopicId

\* The records a chain of ties joins to a record of 'seen'.
RECURSIVE TiedClosure(_, _)
TiedClosure(s, seen) ==
    LET next == seen \cup {u \in Records(s) : \E t \in seen : Tied(t, u)}
    IN  IF next = seen THEN seen ELSE TiedClosure(s, next)

\* Both ids are stored and no chain of parent/child links joins them.
Disconnected(s, a, b) ==
    /\ a \in Ids(s)
    /\ b \in Ids(s)
    /\ FindById(s, b) \notin TiedClosure(s, {FindById(s, a)})

\* C15: for two existing topics that no chain of parent/child links joins,
\* findShortestPath returns pathExists = false, distance = -1 and an empty
\* path, and when both ids resolve it does so after bfs has explored the
\* start topic and emptied its queue.
C15_Disconnected ==
    (Returned /\ Disconnected(store, call.startTopicId, call.endTopicId)) =>
        /\ ~result.pathExists
        /\ result.distance = -1
        /\ result.path = <<>>
        /\ (~IsNull(StartTopic) /\ ~IsNull(EndTopic)) =>
               /\ QIsEmpty(bfs.queue)
               /\ result.nodesExplored >= 1
               /\ result.nodesExplored = Cardinality(bfs.visited)

\* Two parentless topics, both resolved, and a search that explored more
\* than the start topic before its queue ran empty.
C15_Witness ==
    /\ Returned
    /\ Disconnected(store, call.startTopicId, call.endTopicId)
    /\ ~IsNull(StartTopic) /\ StartTopic.parentTopicId = NoId
    /\ ~IsNull(EndTopic) /\ EndTopic.parentTopicId = NoId
    /\ ~result.pathExists
    /\ result.nodesExplored >= 2
    /\ QIsEmpty(bfs.queue)

\* ---------------------------------------------------------------- C16
NoPathResult ==
    /\ ~result.pathExists
    /\ result.distance = -1
    /\ result.path = <<>>

\* C16: findShortestPath never rejects, and whenever a store lookup
\* (findById or find) has thrown during endpoint resolution or during the
\* traversal (and so was logged by a catch block), the call resolves to the
\* no-path result.
C16_FailureGivesNoPath == (Returned /\ errors # {}) => NoPathResult

\* What the code does when a lookup throws while the two ends are resolved.
FailedResolutionGivesNoPath ==
    (Returned /\ errors # {} /\ bfs = IdleBfs) =>
        NoPathResult /\ result.nodesExplored = 0

\* A returned path is as long as its distance says.  This is so under
\* SpecPath and fails under SpecPathFaulty, where a lookup of buildPath
\* may throw.
PathMatchesDistance ==
    (Returned /\ result.pathExists) =>
        Len(result.path) = result.distance + 1

\* ---------------------------------------------------------------- C17
ForestReturned ==
    /\ pc = "done"
    /\ call.op = "buildAllTopicTrees"
    /\ treeResult.kind = "forest"

\* The topics at the roots of the returned trees, in the order returned.
TreeRoots(nodes) ==
    LET roots == SelectSeq(nodes, LAMBDA n : n.parent = 0)
    IN  [i \in 1..Len(roots) |-> roots[i].topic]

\* The stored topics that are to get a tree.
ParentlessTopics(s, onlyLatest) ==
    {t \in Records(s) : t.parentTopicId = NoId /\ (onlyLatest => t.isLatest)}

\* C17: buildAllTopicTrees(onlyLatest) returns exactly one tree per stored
\* topic without a parentTopicId and none for a topic that has one; with
\* onlyLatest = true only the roots with isLatest = true get a tree, with
\* onlyLatest = false every stored root version does.
C17_OneTreePerRoot ==
    ForestReturned =>
        LET roots == TreeRoots(treeResult.nodes) IN
        /\ SeqToSet(roots) = ParentlessTopics(store, call.onlyLatest)
        /\ NoDuplicates(roots)

\* A latest-only forest over a store that also holds a stale root version
\* and a topic with a parent: two trees are returned and neither of the
\* other two topics is a root.
C17_Witness ==
    /\ ForestReturned
    /\ call.onlyLatest
    /\ Len(TreeRoots(treeResult.nodes)) >= 2
    /\ \E t \in Records(store) : t.parentTopicId = NoId /\ ~t.isLatest
    /\ \E t \in Records(store) : t.parentTopicId # NoId

\* ---------------------------------------------------------------- C18
\* The roots whose buildTopicTree rejected, as the loop over the roots
\* logged them.
FailedRoots == {e.id : e \in {x \in errors : x.where = "rootTopic"}}

\* C18: when building the tree of a root fails with a store error,
\* buildAllTopicTrees does not reject: it returns the trees of all the
\* other parentless topics, each once, and none for a root that failed.
C18_OtherRootsReturned ==
    (pc = "done" /\ call.op = "buildAllTopicTrees" /\ FailedRoots # {}) =>
        /\ treeResult.kind = "forest"
        /\ LET roots == TreeRoots(treeResult.nodes) IN
           /\ SeqToSet(roots) =
                  {t \in ParentlessTopics(store, call.onlyLatest) :
                      t.id \notin FailedRoots}
           /\ NoDuplicates(roots)

\* The children query of one root threw after its component was created,
\* and the tree of another root is returned.
C18_Witness ==
    /\ ForestReturned
    /\ \E id \in FailedRoots : Logged("buildChildren", id) \in errors
    /\ Len(TreeRoots(treeResult.nodes)) >= 1

\* ---------------------------------------------------------------- C19
TreeReturned ==
    /\ pc = "done"
    /\ call.op = "buildTopicTree"
    /\ treeResult.kind = "tree"

\* The topics attached as children to node i of a tree, in order.
AttachedTo(nodes, i) ==
    LET attached == SelectSeq(nodes, LAMBDA n : n.parent = i)
    IN  [k \in 1..Len(attached) |-> attached[k].topic]

\* The stored topics that name the baseTopicId of 'topic' as their parent.
ChildrenByBase(s, topic, onlyLatest) ==
    {t \in Records(s) : /\ t.parentTopicId = topic.baseTopicId
                        /\ onlyLatest => t.isLatest}

\* C19: in the tree buildTopicTree(rootId, onlyLatest) returns, the
\* children attached to a node N are exactly the stored topics whose
\* parentTopicId is N's baseTopicId (the latest ones only when onlyLatest),
\* each attached once, whether or not N's id is its baseTopicId.  The claim
\* is about every store; it is stated here for the well-formed ones (one
\* latest version per baseTopicId, every parentTopicId a stored
\* baseTopicId of another topic).
C19_ChildrenByBase ==
    (TreeReturned /\ WellFormed(store)) =>
        \A i \in 1..Len(treeResult.nodes) :
            LET attached == AttachedTo(treeResult.nodes, i) IN
            /\ SeqToSet(attached) =
                   ChildrenByBase(store, treeResult.nodes[i].topic,
                                  call.onlyLatest)
            /\ NoDuplicates(attached)

\* What the code does: the children attached to a composite are the stored
\* topics whose parentTopicId is the node's id, and a leaf has none.
ChildrenById ==
    TreeReturned =>
        \A i \in 1..Len(treeResult.nodes) :
            LET node == treeResult.nodes[i]
                attached == AttachedTo(treeResult.nodes, i)
            IN  /\ SeqToSet(attached) =
                       IF node.composite
                       THEN {t \in Records(store) :
                                /\ t.parentTopicId = node.topic.id
                                /\ call.onlyLatest => t.isLatest}
                       ELSE {}
                /\ NoDuplicates(attached)

\* ---------------------------------------------------------------- C20
\* Every topic is its own base topic and none is its own parent, so that
\* "child of N" means the same by id and by baseTopicId.
IdsAreBases(s) ==
    \A t \in Records(s) : t.baseTopicId = t.id /\ t.parentTopicId # t.id

\* C20: in a tree buildTopicTree returns, for either value of onlyLatest, a
\* node is a Composite exactly when at least one child is attached to it,
\* and a Leaf exactly when no stored topic qualifies as its child under the
\* onlyLatest policy of the call.  The claim is about every store; it is
\* stated here for the stores whose topics are their own base topics.
C20_CompositeIffChildren ==
    (TreeReturned /\ IdsAreBases(store)) =>
        \A i \in 1..Len(treeResult.nodes) :
            LET node == treeResult.nodes[i] IN
            /\ node.composite <=> AttachedTo(treeResult.nodes, i) # <<>>
            /\ ~node.composite <=>
                   ChildrenByBase(store, node.topic, call.onlyLatest) = {}

\* What the code does: a node is a Composite exactly when a latest topic
\* names its base id as parent, whatever onlyLatest says.
CompositeIffLatestChild ==
    TreeReturned =>
        \A i \in 1..Len(treeResult.nodes) :
            LET node == treeResult.nodes[i] IN
            node.composite <=>
                ChildrenByBase(store, node.topic, TRUE) # {}

\* ---------------------------------------------------------------- C21
ListReturned ==
    /\ pc = "done"
    /\ call.op = "getTopicDescendants"
    /\ treeResult.kind = "list"

RECURSIVE Flatten(_)
Flatten(seqs) == IF seqs = <<>> THEN <<>> ELSE Head(seqs) \o Flatten(Tail(seqs))

\* The ids of the tree built at 'topic', in pre-order: the topic, then for a
\* composite the trees of its children one after the other.
RECURSIVE PreOrderIds(_, _, _)
PreOrderIds(s, topic, onlyLatest) ==
    <<topic.id>> \o
        (IF HasChildren(s, BaseOrId(topic))
         THEN LET children ==
                      ChildrenToBuild(s, [topic |-> topic], onlyLatest)
              IN  Flatten([k \in 1..Len(children) |->
                              PreOrderIds(s, children[k], onlyLatest)])
         ELSE <<>>)

\* The longest chain of nodes below the root in a list of nodes that carry
\* the index of their parent.
RECURSIVE DepthOf(_, _)
DepthOf(nodes, i) ==
    IF nodes[i].parent = 0 THEN 0 ELSE 1 + DepthOf(nodes, nodes[i].parent)

\* C21: getTopicDescendants(id, onlyLatest) returns, by id and in
\* pre-order, exactly the nodes of the tree built at id without the root,
\* each once; the list is empty when the root resolves to a leaf or to no
\* topic.
C21_Descendants ==
    ListReturned =>
        LET topic == TreeGetTopicById(store, call.startTopicId,
                                      call.onlyLatest)
            ids == [i \in 1..Len(treeResult.path) |-> treeResult.path[i].id]
        IN  IF IsNull(topic) THEN ids = <<>>
            ELSE /\ ids = Tail(PreOrderIds(store, topic, call.onlyLatest))
                 /\ NoDuplicates(ids)
                 /\ ~HasChildren(store, BaseOrId(topic)) => ids = <<>>

\* A root with three levels of descendants, all of them listed.
C21_Witness ==
    /\ ListReturned
    /\ Len(treeResult.path) >= 3
    /\ Len(build.nodes) = Len(treeResult.path) + 1
    /\ \E i \in 1..Len(build.nodes) : DepthOf(build.nodes, i) = 3

\* ---------------------------------------------------------------- C22
PathReturned == pc = "done" /\ call.op = "getTopicPath"

\* The records above the records of 'seen': those they name as parent, by
\* id or by baseTopicId, and the versions and parents of these.
RECURSIVE Above(_, _)
Above(s, seen) ==
    LET next == seen \cup {u \in Records(s) :
                              \E t \in seen :
                                  \/ NamesAsParent(t, u)
                                  \/ t.baseTopicId = u.baseTopicId}
    IN  IF next = seen THEN seen ELSE Above(s, next)

\* No topic is above itself.
Acyclic(s) ==
    \A t \in Records(s) :
        LET parents == {u \in Records(s) : NamesAsParent(t, u)} IN
        \A u \in Above(s, parents) : u.baseTopicId # t.baseTopicId

\* The list runs from a topic without parent down to 'start', each entry
\* naming the one before it as its parent.
RootFirst(path, start) ==
    /\ path # <<>>
    /\ path[Len(path)] = start
    /\ path[1].parentTopicId = NoId
    /\ \A i \in 2..Len(path) : NamesAsParent(path[i], path[i - 1])

\* C22: on an acyclic store getTopicPath(id, onlyLatest) returns a list
\* that ends with the resolved start topic, begins with a topic without
\* parentTopicId, and in which each entry's parentTopicId refers to the
\* entry before it, also when the parentTopicIds are baseTopicIds that are
\* no version ids; when no topic has the id the list is empty and no error
\* is raised.  Stated for the well-formed acyclic stores.
C22_RootFirstPath ==
    (PathReturned /\ WellFormed(store) /\ Acyclic(store)) =>
        /\ treeResult.kind = "path"
        /\ IF call.startTopicId \in Ids(store)
           THEN RootFirst(treeResult.path,
                          TreeGetTopicById(store, call.startTopicId,
                                           call.onlyLatest))
           ELSE treeResult.path = <<>>

\* What the code does: the same when every parentTopicId is the id of a
\* stored topic.
RootFirstWhenParentsAreIds ==
    (PathReturned /\ WellFormed(store) /\ Acyclic(store)
        /\ \A t \in Records(store) :
               t.parentTopicId # NoId => t.parentTopicId \in Ids(store)) =>
        /\ treeResult.kind = "path"
        /\ IF call.startTopicId \in Ids(store)
           THEN RootFirst(treeResult.path,
                          TreeGetTopicById(store, call.startTopicId,
                                           call.onlyLatest))
           ELSE treeResult.path = <<>>

\* ---------------------------------------------------------------- C23
\* The topics bfs has asked getTopicNeighbors about so far: those of the
\* ids it has dequeued during its loop.
Expanded ==
    IF pc = "bfs" /\ call.op = "findShortestPath"
    THEN LET waiting == {bfs.queue.items[i] :
                            i \in (bfs.queue.head + 1)..Len(bfs.queue.items)}
             ids == SeqToSet(bfs.enqueued) \ waiting
         IN  {GetTopicById(store, id, call.onlyLatest) : id \in ids}
                 \ {NullTopic}
    ELSE {}

\* topic's parentTopicId is the baseTopicId of a stored topic and the id of
\* none.
ParentOnlyByBase(s, topic) ==
    /\ topic.parentTopicId # NoId
    /\ topic.parentTopicId \notin Ids(s)
    /\ \E p \in Records(s) : p.baseTopicId = topic.parentTopicId

\* C23: for a topic T whose parentTopicId is the baseTopicId of a stored
\* topic P and the id of no stored version, getTopicNeighbors(T,
\* onlyLatest) contains a version of P, for onlyLatest = true and for
\* onlyLatest = false.  Stated for the well-formed stores.
C23_ParentByBase ==
    WellFormed(store) =>
        \A topic \in Expanded :
            ParentOnlyByBase(store, topic) =>
                LET neighbors == GetTopicNeighbors(store, topic,
                                                   call.onlyLatest)
                IN  \E i \in 1..Len(neighbors) :
                        neighbors[i].baseTopicId = topic.parentTopicId

\* What the code does: the same for onlyLatest = true.
ParentByBaseWhenLatest ==
    (WellFormed(store) /\ call.onlyLatest) =>
        \A topic \in Expanded :
            ParentOnlyByBase(store, topic) =>
                LET neighbors == GetTopicNeighbors(store, topic, TRUE)
                IN  /\ neighbors # <<>>
                    /\ neighbors[1].baseTopicId = topic.parentTopicId
                    /\ neighbors[1].id \in bfs.visited

\* ---------------------------------------------------------------- C24
\* The positions of the records of q in the store.
StorePositions(s, q) ==
    [i \in 1..Len(q) |-> CHOOSE k \in 1..Len(s) : s[k] = q[i]]

\* q lists records of the store in store order.
InStoreOrder(s, q) ==
    /\ \A i \in 1..Len(q) : \E k \in 1..Len(s) : s[k] = q[i]
    /\ \A i, j \in 1..Len(q) :
           i < j => StorePositions(s, q)[i] <= StorePositions(s, q)[j]

\* The list is the resolved parent, when there is one, and then topics that
\* name 'topic' as their parent.
ParentThenChildren(s, topic, onlyLatest, neighbors) ==
    LET parent == ParentNeighbor(s, topic, onlyLatest)
        rest == SubSeq(neighbors, Len(parent) + 1, Len(neighbors))
    IN  /\ SubSeq(neighbors, 1, Len(parent)) = parent
        /\ \A i \in 1..Len(rest) : NamesAsParent(rest[i], topic)

\* C24: the list getTopicNeighbors returns has the resolved parent (when
\* present) first, then the children in store order, and no two entries
\* with the same id, also when the topic's parent is one of its children.
\* Stated for the stores in which no topic is its own parent.
C24_NeighborList ==
    NoSelfParent(store) =>
        \A topic \in Expanded :
            LET neighbors == GetTopicNeighbors(store, topic, call.onlyLatest)
                parent == ParentNeighbor(store, topic, call.onlyLatest)
            IN  /\ ParentThenChildren(store, topic, call.onlyLatest,
                                      neighbors)
                /\ InStoreOrder(store,
                       SubSeq(neighbors, Len(parent) + 1, Len(neighbors)))
                /\ \A i, j \in 1..Len(neighbors) :
                       neighbors[i].id = neighbors[j].id => i = j

\* What the code does: parent first, then the children, and each id in bfs's
\* queue once all the same, since bfs skips the ids it has visited.
NeighborsEnqueuedOnce ==
    call.op = "findShortestPath" =>
        /\ NoDuplicates(bfs.enqueued)
        /\ \A topic \in Expanded :
               ParentThenChildren(store, topic, call.onlyLatest,
                   GetTopicNeighbors(store, topic, call.onlyLatest))

\* ---------------------------------------------------------------- C25
\* The items of the queue that have not been dequeued.
Unconsumed(q) == SubSeq(q.items, q.head + 1, Len(q.items))

C25_Refines ==
    /\ queue.head \in 0..Len(queue.items)
    /\ Unconsumed(queue) = ghost.fifo
    /\ QSize(queue) = ghost.enqueues - ghost.dequeues
    /\ QIsEmpty(queue) <=> QSize(queue) = 0
    /\ ghost.returned = ghost.expected

C25_Dequeue ==
    ghost'.calls # ghost.calls =>
        IF ghost.fifo = <<>>
        THEN ghost'.returned = NoId /\ queue' = queue
        ELSE /\ ghost'.returned = Head(ghost.fifo)
             /\ Unconsumed(queue') = Tail(Unconsumed(queue))

\* C25: under any interleaving of enqueue and dequeue the Queue is a FIFO
\* sequence: dequeue returns the items in the order they were enqueued,
\* the compaction of the consumed prefix drops, duplicates and reorders no
\* unconsumed item, size() is the number of enqueues less the successful
\* dequeues, isEmpty() holds exactly when size() is 0, and dequeue on an
\* empty queue returns undefined and changes nothing.
C25_FifoQueue == []C25_Refines /\ [][C25_Dequeue]_vars

\* A dequeue has just compacted the array while items were waiting, after
\* enqueues and dequeues had alternated.
C25_Witness ==
    /\ ghost.dequeues >= 2
    /\ queue.head = 0
    /\ Len(ghost.fifo) >= 2
    /\ ghost.fifo[1] # ghost.fifo[2]
    /\ ghost.enqueues = MaxEnqueues
    /\ ghost.returned # NoId

\* ---------------------------------------------------------------- C26
\* Node j lies strictly below node i.
RECURSIVE IsBelow(_, _, _)
IsBelow(nodes, j, i) ==
    /\ nodes[j].parent # 0
    /\ \/ nodes[j].parent = i
       \/ IsBelow(nodes, nodes[j].parent, i)

\* The total descendants a serialized node reports (none for a leaf).
ReportedDescendants(json) ==
    IF json.isComposite THEN json.totalDescendants ELSE 0

RECURSIVE OnePlusDescendants(_)
OnePlusDescendants(jsons) ==
    IF jsons = <<>> THEN 0
    ELSE 1 + ReportedDescendants(Head(jsons)) + OnePlusDescendants(Tail(jsons))

\* C26: for every node of a returned tree, toJSON reports childCount equal
\* to the number of children attached to it and, for a composite,
\* totalDescendants equal to the number of nodes strictly below it, which
\* is the sum over its children of 1 plus the child's totalDescendants; a
\* leaf serializes with an empty children array and childCount 0.
C26_Counts ==
    (TreeReturned \/ ForestReturned) =>
        \A i \in 1..Len(treeResult.nodes) :
            LET nodes == treeResult.nodes
                json == ToJSON(nodes, i)
                below == {j \in 1..Len(nodes) : IsBelow(nodes, j, i)}
            IN  /\ json.childCount = Len(AttachedTo(nodes, i))
                /\ Len(json.children) = json.childCount
                /\ json.isComposite =>
                       /\ json.totalDescendants = Cardinality(below)
                       /\ json.totalDescendants =
                              OnePlusDescendants(json.children)
                /\ ~json.isComposite =>
                       /\ json.children = <<>>
                       /\ json.childCount = 0
                       /\ DOMAIN json =
                              {"topic", "children", "isComposite", "childCount"}

\* A returned tree whose root has more descendants than children, a
\* composite below the root and a leaf.
C26_Witness ==
    /\ TreeReturned
    /\ ToJSON(treeResult.nodes, 1).isComposite
    /\ ToJSON(treeResult.nodes, 1).totalDescendants >
           ToJSON(treeResult.nodes, 1).childCount
    /\ ToJSON(treeResult.nodes, 1).childCount >= 2
    /\ \E i \in 2..Len(treeResult.nodes) :
           ~ToJSON(treeResult.nodes, i).isComposite

\* ---------------------------------------------------------------- C27
BuildTopicTreeDone == pc = "done" /\ call.op = "buildTopicTree"

\* The children whose expansion failed: the query of their buildChildren
\* throws.
FailsToExpand(topic) ==
    Throws(failing, FindQuery(ChildCriteria(topic.id, call.onlyLatest)))

\* The rejection of the call comes from the lookup of the root topic.
RejectedOnlyByRootLookup ==
    (BuildTopicTreeDone /\ treeResult.kind = "rejected") =>
        TreeGetTopicByIdThrows(store, failing, call.startTopicId,
                               call.onlyLatest)

\* No composite of a returned tree is a child that failed to expand.
FailedChildLeftOut ==
    (BuildTopicTreeDone /\ treeResult.kind = "tree") =>
        \A i \in 2..Len(treeResult.nodes) :
            treeResult.nodes[i].composite =>
                ~FailsToExpand(treeResult.nodes[i].topic)

\* The children that did expand are attached to their parent.
SiblingsAttached ==
    (BuildTopicTreeDone /\ treeResult.kind = "tree") =>
        \A i \in 1..Len(treeResult.nodes) :
            LET node == treeResult.nodes[i] IN
            (node.composite /\ ~FailsToExpand(node.topic)) =>
                \A t \in Records(ChildrenToBuild(store, node,
                                                 call.onlyLatest)) :
                    (~HasChildrenCaught(store, failing, BaseOrId(t)).value
                         \/ ~FailsToExpand(t)) =>
                        t \in Records(AttachedTo(treeResult.nodes, i))

\* C27: buildTopicTree fails as a whole only when the lookup of the root
\* topic fails; when a store call fails while the children of a node are
\* being expanded, the child that failed to expand is left out of its
\* parent's children, its siblings are still attached, and the call
\* returns a tree.
C27_ChildFailureSkipped ==
    /\ RejectedOnlyByRootLookup
    /\ FailedChildLeftOut
    /\ SiblingsAttached

\* ---------------------------------------------------------------- C28
SearchReturned == pc = "done" /\ call.op = "findShortestPath"

\* C28: when an updateTopic (the old version written with isLatest = false,
\* then the new version inserted) runs beside a findShortestPath with
\* onlyLatest = true, a result with pathExists = true has
\* path.length = distance + 1: no entry of the path is dropped.  It is
\* stated for the routes from one topic to another.
C28_PathKeptUnderUpdate ==
    (SearchReturned /\ result.pathExists /\ result.distance >= 1) =>
        Len(result.path) = result.distance + 1

\* The search resolves every id it has collected when no write falls
\* between its steps.
PathKeptWithoutUpdate ==
    (SearchReturned /\ result.pathExists /\ updating.stage = "none") =>
        Len(result.path) = result.distance + 1

\* ---------------------------------------------------------------- C29
\* The base ids that have no latest version.
BasesWithoutLatest(s) ==
    {t.baseTopicId : t \in Records(s)} \
        {t.baseTopicId : t \in {r \in Records(s) : r.isLatest}}

\* C29: a baseTopicId has no latest version only while an updateTopic is in
\* progress: when create throws after the old version was written with
\* isLatest = false, the request is answered with an error and the store is
\* as it was before the request.
C29_FailedUpdateRestores ==
    /\ updating.stage # "marked" => BasesWithoutLatest(store) = {}
    /\ (updating.stage = "answered" /\ response.status = 500) =>
           store = updating.before

\* The answer to the failed request is an error, and every other answer
\* leaves each base id with a latest version.
FailedUpdateAnswersError ==
    /\ (updating.stage = "answered" /\ response.status # 500) =>
           BasesWithoutLatest(store) = {}
    /\ (updating.stage = "answered"
            /\ Logged("updateTopic", updating.id) \in errors) =>
           response.status = 500

\* ---------------------------------------------------------------- C30
AllLatest(topics) == \A i \in 1..Len(topics) : topics[i].isLatest

\* C30: with onlyLatest = true every topic of a result has isLatest = true:
\* every entry of a findShortestPath path, every node of a tree of
\* buildTopicTree or buildAllTopicTrees, and every entry of getTopicPath and
\* getTopicDescendants.
C30_OnlyLatestResults ==
    (pc = "done" /\ call.onlyLatest) =>
        /\ call.op = "findShortestPath" => AllLatest(result.path)
        /\ call.op \in {"buildTopicTree", "buildAllTopicTrees"} =>
               \A i \in 1..Len(treeResult.nodes) :
                   treeResult.nodes[i].topic.isLatest
        /\ call.op \in {"getTopicPath", "getTopicDescendants"} =>
               AllLatest(treeResult.path)

\* A path of two topics or more was found from an id whose record is a
\* stale version, in a store that holds stale versions.
C30_Witness ==
    /\ pc = "done"
    /\ call.onlyLatest
    /\ call.op = "findShortestPath"
    /\ result.pathExists
    /\ Len(result.path) >= 2
    /\ ~IsNull(FindById(store, call.startTopicId))
    /\ ~FindById(store, call.startTopicId).isLatest

\* A list of descendants returned from a store that holds stale versions.
LatestDescendantsListed ==
    /\ pc = "done"
    /\ call.onlyLatest
    /\ call.op = "getTopicDescendants"
    /\ Len(treeResult.path) >= 2
    /\ \E t \in Records(store) : ~t.isLatest

====
